---- MODULE Spec2Model ----
(***************************************************************************)
(* RAG memory service of the Echosphere MCP server: the persisted memory   *)
(* store, saveMemory / loadMemory / clearMemory as sequences of steps      *)
(* separated by their awaits, and the pure helpers they call (chunking,    *)
(* content hash, duplicate detection, cosine similarity, top-K selection,  *)
(* relevance tiers, semantic firewall).                                    *)
(*                                                                         *)
(* Spec: one caller, one call at a time.  SpecOverlap: two callers whose   *)
(* calls interleave at their awaits.  SpecLoad: loadMemory on the          *)
(* documents a history of saves can leave.  SpecFirewall, SpecTopK,       *)
(* SpecDedup, SpecTiers, SpecChunker: the semantic firewall, the top-K     *)
(* selection, isDuplicate, categorizeByRelevance and splitIntoChunks       *)
(* applied to every short input.                                           *)
(*                                                                         *)
(* Text is a sequence of one-character strings.  Scores are fixed-point:   *)
(* a score s of the code is the integer s * ScoreScale, exact for the      *)
(* embedding vectors of the model (all of norm 0, 3 or 6).                 *)
(***************************************************************************)
EXTENDS Integers, Sequences, FiniteSets, TLC

----------------------------------------------------------------------------
(* Bounds of the model.                                                    *)

\* CHUNK_SIZE and CHUNK_OVERLAP are 800 and 120 in the source; the model
\* runs the same algorithm on texts of a few characters.
CHUNK_SIZE == 4
CHUNK_OVERLAP == 1
\* calls begun in one behaviour
MaxCalls == 3
\* length of the lists the semantic firewall is applied to on its own
MaxFirewallLen == 5
\* length of the candidate lists of the top-K selection on its own, and the
\* number of distinct scores they draw from
MaxHeapItems == 5
\* largest topK of the top-K selection on its own
MaxTopK == 3
\* number of existing chunks a candidate is compared with on its own
MaxExisting == 2
\* length of the lists categorized into relevance tiers on their own
MaxTierLen == 3
\* length of the texts split into chunks on their own
MaxTextLen == 7
MaxWindowText == 3
MaxWindowSize == 2
\* largest length of the vectors cosineSimilarity is applied to on its own
MaxDim == 3

----------------------------------------------------------------------------
(* Strings                                                                 *)

Min(a, b) == IF a <= b THEN a ELSE b
Max(a, b) == IF a >= b THEN a ELSE b

\* \s of the regular expressions, String.prototype.trim
IsSpace(c) == c \in {" ", "\n", "\t"}
\* [.!?]
IsTerminal(c) == c \in {".", "!", "?"}

\* String.prototype.toLowerCase on the alphabet of the model
ToLowerChar(c) ==
    CASE c = "A" -> "a"
      [] c = "B" -> "b"
      [] c = "C" -> "c"
      [] c = "D" -> "d"
      [] OTHER -> c

ToLowerCase(s) == [i \in 1..Len(s) |-> ToLowerChar(s[i])]

RECURSIVE TrimStart(_)
TrimStart(s) ==
    IF s = <<>> THEN s
    ELSE IF IsSpace(Head(s)) THEN TrimStart(Tail(s)) ELSE s

RECURSIVE TrimEnd(_)
TrimEnd(s) ==
    IF s = <<>> THEN s
    ELSE IF IsSpace(s[Len(s)]) THEN TrimEnd(SubSeq(s, 1, Len(s) - 1)) ELSE s

\* String.prototype.trim
Trim(s) == TrimEnd(TrimStart(s))

\* String.prototype.slice(from) with 0-based from >= 0, and slice(0, to)
SliceFrom(s, from) == SubSeq(s, Min(from, Len(s)) + 1, Len(s))
SliceTo(s, to) == SubSeq(s, 1, Min(to, Len(s)))

\* index of the last character of the maximal run of \s starting at i
\* (i - 1 when s[i] is no space)
RECURSIVE SpaceRunEnd(_, _)
SpaceRunEnd(s, i) ==
    IF i <= Len(s) /\ IsSpace(s[i]) THEN SpaceRunEnd(s, i + 1) ELSE i - 1

\* the largest index in lo..hi holding "\n", 0 when there is none
LastNewline(s, lo, hi) ==
    LET S == {j \in lo..hi : s[j] = "\n"}
    IN IF S = {} THEN 0 ELSE CHOOSE j \in S : \A k \in S : k <= j

\* s.replace(/\s+/g, ' ')
RECURSIVE CollapseSpaces(_)
CollapseSpaces(s) ==
    IF s = <<>> THEN s
    ELSE IF IsSpace(Head(s))
         THEN <<" ">> \o CollapseSpaces(SliceFrom(s, SpaceRunEnd(s, 1)))
         ELSE <<Head(s)>> \o CollapseSpaces(Tail(s))

RECURSIVE JoinWith(_, _)
\* Array.prototype.join
JoinWith(parts, sep) ==
    IF parts = <<>> THEN <<>>
    ELSE IF Len(parts) = 1 THEN parts[1]
    ELSE parts[1] \o sep \o JoinWith(Tail(parts), sep)

RECURSIVE SelectNonBlank(_)
\* .filter(p => p.trim().length > 0)
SelectNonBlank(parts) ==
    IF parts = <<>> THEN <<>>
    ELSE IF Len(Trim(Head(parts))) > 0
         THEN <<Head(parts)>> \o SelectNonBlank(Tail(parts))
         ELSE SelectNonBlank(Tail(parts))

\* text.split(/\n\s*\n/): p is the start of the piece being collected, q
\* the position where a match is tried.  The greedy \s* runs to the end of
\* the white space and backs up to its last "\n".
RECURSIVE SplitParagraphsFrom(_, _, _, _)
SplitParagraphsFrom(s, p, q, acc) ==
    IF q > Len(s) THEN Append(acc, SubSeq(s, p, Len(s)))
    ELSE LET e == IF s[q] = "\n"
                  THEN LastNewline(s, q + 1, SpaceRunEnd(s, q + 1))
                  ELSE 0
         IN IF e > 0
            THEN SplitParagraphsFrom(s, e + 1, e + 1, Append(acc, SubSeq(s, p, q - 1)))
            ELSE SplitParagraphsFrom(s, p, q + 1, acc)

SplitParagraphs(s) == SplitParagraphsFrom(s, 1, 1, <<>>)

\* paragraph.split(/(?<=[.!?])\s+/)
RECURSIVE SplitSentencesFrom(_, _, _, _)
SplitSentencesFrom(s, p, q, acc) ==
    IF q > Len(s) THEN Append(acc, SubSeq(s, p, Len(s)))
    ELSE IF q > 1 /\ IsTerminal(s[q - 1]) /\ IsSpace(s[q])
         THEN LET e == SpaceRunEnd(s, q)
              IN SplitSentencesFrom(s, e + 1, e + 1, Append(acc, SubSeq(s, p, q - 1)))
         ELSE SplitSentencesFrom(s, p, q + 1, acc)

SplitSentences(s) == SplitSentencesFrom(s, 1, 1, <<>>)

\* s.split(' ')
RECURSIVE SplitWordsFrom(_, _, _, _)
SplitWordsFrom(s, p, q, acc) ==
    IF q > Len(s) THEN Append(acc, SubSeq(s, p, Len(s)))
    ELSE IF s[q] = " "
         THEN SplitWordsFrom(s, q + 1, q + 1, Append(acc, SubSeq(s, p, q - 1)))
         ELSE SplitWordsFrom(s, p, q + 1, acc)

SplitWords(s) == SplitWordsFrom(s, 1, 1, <<>>)

HasNewline(s) == \E i \in 1..Len(s) : s[i] = "\n"

\* group 1 of s.match(/[.!?]\s+(.*)$/), <<FALSE>> when there is no match:
\* the leftmost terminal followed by white space after which no "\n" is left
SentenceMatch(s) ==
    LET S == {i \in 1..Len(s) - 1 :
                 /\ IsTerminal(s[i]) /\ IsSpace(s[i + 1])
                 /\ ~HasNewline(SliceFrom(s, SpaceRunEnd(s, i + 1)))}
    IN IF S = {} THEN <<FALSE>>
       ELSE LET i == CHOOSE j \in S : \A k \in S : j <= k
            IN <<TRUE, SliceFrom(s, SpaceRunEnd(s, i + 1))>>

\* group 1 of s.match(/\n(.*)$/): what follows the last "\n"
LineMatch(s) ==
    LET e == LastNewline(s, 1, Len(s))
    IN IF e = 0 THEN <<FALSE>> ELSE <<TRUE, SliceFrom(s, e)>>

----------------------------------------------------------------------------
(* Text chunker                                                            *)

MinBoundaryOverlap == 20
OverlapWords == 15

\* lines 164-178: the sentence boundary, the line boundary, the last words
OverlapOfMatches(sentenceMatch, lineMatch, words) ==
    IF sentenceMatch[1] /\ Len(sentenceMatch[2]) > MinBoundaryOverlap
    THEN sentenceMatch[2]
    ELSE IF lineMatch[1] /\ Len(lineMatch[2]) > MinBoundaryOverlap
    THEN lineMatch[2]
    ELSE JoinWith(SubSeq(words, Max(0, Len(words) - OverlapWords) + 1, Len(words)), <<" ">>)

OverlapOfCandidate(overlapCandidate) ==
    OverlapOfMatches(SentenceMatch(overlapCandidate), LineMatch(overlapCandidate),
                     SplitWords(overlapCandidate))

getOverlapText(chunk, chunkOverlap) ==
    IF Len(chunk) <= chunkOverlap THEN chunk
    \* chunk.slice(-chunkOverlap); slice(-0) is slice(0)
    ELSE IF chunkOverlap = 0 THEN OverlapOfCandidate(chunk)
    ELSE OverlapOfCandidate(SliceFrom(chunk, Len(chunk) - chunkOverlap))

\* a join that puts the separator in front of the first piece too
JoinAlways(first, sep, piece) == first \o sep \o piece

\* overlapText + (overlapText ? sep : '') + piece, and the same with currentChunk
JoinNonEmpty(first, sep, piece) ==
    IF first # <<>> THEN first \o sep \o piece ELSE piece

\* if (currentChunk.trim().length > 0) chunks.push(currentChunk.trim())
PushCurrent(chunks, currentChunk) ==
    IF Len(Trim(currentChunk)) > 0 THEN Append(chunks, Trim(currentChunk)) ELSE chunks

\* one sentence of the loop of splitLargeParagraph: <<chunks, currentChunk>>
SentenceStep(sentence, chunks, currentChunk, chunkSize, chunkOverlap) ==
    IF Len(currentChunk) + Len(sentence) + 1 > chunkSize /\ Len(currentChunk) > 0
    THEN <<Append(chunks, Trim(currentChunk)),
           JoinNonEmpty(getOverlapText(currentChunk, chunkOverlap), <<" ">>, sentence)>>
    ELSE <<chunks, JoinNonEmpty(currentChunk, <<" ">>, sentence)>>

RECURSIVE SentenceLoop(_, _, _, _)
SentenceLoop(sentences, st, chunkSize, chunkOverlap) ==
    IF sentences = <<>> THEN PushCurrent(st[1], st[2])
    ELSE SentenceLoop(Tail(sentences),
                      SentenceStep(Head(sentences), st[1], st[2], chunkSize, chunkOverlap),
                      chunkSize, chunkOverlap)

splitLargeParagraph(paragraph, chunkSize, chunkOverlap) ==
    SentenceLoop(SelectNonBlank(SplitSentences(paragraph)), <<<<>>, <<>>>>,
                 chunkSize, chunkOverlap)

\* chunks.push(...splitChunks.slice(0, -1)); currentChunk = last || ''
TakeSplit(chunks, splitChunks) ==
    IF splitChunks = <<>> THEN <<chunks, <<>>>>
    ELSE <<chunks \o SubSeq(splitChunks, 1, Len(splitChunks) - 1),
           splitChunks[Len(splitChunks)]>>

\* lines 132-137: a current chunk that is still too large is split
SplitIfLarge(chunks, currentChunk, chunkSize, chunkOverlap) ==
    IF Len(currentChunk) > chunkSize
    THEN TakeSplit(chunks, splitLargeParagraph(currentChunk, chunkSize, chunkOverlap))
    ELSE <<chunks, currentChunk>>

\* one paragraph of the loop of splitIntoChunks: <<chunks, currentChunk>>
ParagraphStep(paragraphTrimmed, chunks, currentChunk, chunkSize, chunkOverlap) ==
    IF Len(currentChunk) + Len(paragraphTrimmed) + 2 > chunkSize /\ Len(currentChunk) > 0
    THEN SplitIfLarge(Append(chunks, Trim(currentChunk)),
                      JoinNonEmpty(getOverlapText(currentChunk, chunkOverlap),
                                   <<"\n", "\n">>, paragraphTrimmed),
                      chunkSize, chunkOverlap)
    ELSE SplitIfLarge(chunks, JoinNonEmpty(currentChunk, <<"\n", "\n">>, paragraphTrimmed),
                      chunkSize, chunkOverlap)

RECURSIVE ParagraphLoop(_, _, _, _)
ParagraphLoop(paragraphs, st, chunkSize, chunkOverlap) ==
    IF paragraphs = <<>> THEN PushCurrent(st[1], st[2])
    ELSE ParagraphLoop(Tail(paragraphs),
                       ParagraphStep(Trim(Head(paragraphs)), st[1], st[2],
                                     chunkSize, chunkOverlap),
                       chunkSize, chunkOverlap)

\* the fallback loop of splitIntoChunks, i 0-based; the loop does not end
\* when the stride chunkSize - chunkOverlap is not positive, which the
\* callers of this operator exclude
RECURSIVE WindowLoop(_, _, _, _, _)
WindowLoop(text, i, acc, chunkSize, chunkOverlap) ==
    IF i >= Len(text) THEN acc
    ELSE WindowLoop(text, i + (chunkSize - chunkOverlap),
                    Append(acc, SubSeq(text, i + 1, Min(i + chunkSize, Len(text)))),
                    chunkSize, chunkOverlap)

\* lines 145-151: the fallback for a text that gave no chunk, and the filter
FallbackIfNone(text, chunks, chunkSize, chunkOverlap) ==
    IF Len(chunks) = 0 /\ Len(text) > 0
    THEN SelectNonBlank(WindowLoop(text, 0, <<>>, chunkSize, chunkOverlap))
    ELSE SelectNonBlank(chunks)

splitIntoChunks(text, chunkSize, chunkOverlap) ==
    FallbackIfNone(text,
                   ParagraphLoop(SelectNonBlank(SplitParagraphs(text)), <<<<>>, <<>>>>,
                                 chunkSize, chunkOverlap),
                   chunkSize, chunkOverlap)

----------------------------------------------------------------------------
(* Vector math and fixed-point scores                                      *)

\* A score s of the code is the integer s * ScoreScale.  Every embedding of
\* the model has norm 0, 3 or 6, so dot * ScoreScale / (normA * normB) is an
\* exact integer.
ScoreScale == 36

\* s >= pct / 100 for a fixed-point score s
AtLeastPct(s, pct) == 100 * s >= pct * ScoreScale

RECURSIVE DotFrom(_, _, _)
DotFrom(a, b, i) ==
    IF i > Len(a) THEN 0 ELSE a[i] * b[i] + DotFrom(a, b, i + 1)

\* Math.sqrt on the sums of squares of the model's vectors, all perfect squares
Sqrt(n) == CHOOSE r \in 0..n : r * r <= n /\ (r + 1) * (r + 1) > n

\* cosineSimilarity throws "Vectors must have the same length"
cosineThrows(a, b) == Len(a) # Len(b)

\* the dot product, not divided by the norms
cosineSimilarityUnnormalized(a, b) == DotFrom(a, b, 1) * ScoreScale

cosineSimilarity(a, b) ==
    LET dotProduct == DotFrom(a, b, 1)
        normA == Sqrt(DotFrom(a, a, 1))
        normB == Sqrt(DotFrom(b, b, 1))
    IN IF normA = 0 \/ normB = 0 THEN 0
       ELSE (dotProduct * ScoreScale) \div (normA * normB)

----------------------------------------------------------------------------
(* Deduplication                                                           *)

\* absent optional value (docId, query)
None == "<none>"

\* JavaScript truthiness of an optional string: undefined and "" are falsy
Truthy(s) == s # None /\ s # ""

SIMILARITY_DEDUP_THRESHOLD == 95

\* sha256(normalized).substring(0, 16), taken as injective on the
\* normalized text
generateContentHash(content) == ToLowerCase(CollapseSpaces(Trim(content)))

\* a duplicate check that compares with the chunks of every document
RECURSIVE isDuplicateAnyDoc(_, _, _)
isDuplicateAnyDoc(newChunk, existingChunks, docId) ==
    IF existingChunks = <<>> THEN "new"
    ELSE LET existing == Head(existingChunks)
         IN IF existing.contentHash = newChunk.contentHash THEN "dup"
            ELSE IF cosineThrows(newChunk.embedding, existing.embedding) THEN "throw"
            ELSE IF AtLeastPct(cosineSimilarity(newChunk.embedding, existing.embedding),
                               SIMILARITY_DEDUP_THRESHOLD)
                 THEN "dup"
            ELSE isDuplicateAnyDoc(newChunk, Tail(existingChunks), docId)

\* "dup" (return true), "new" (return false) or "throw" (cosineSimilarity threw)
RECURSIVE isDuplicate(_, _, _)
isDuplicate(newChunk, existingChunks, docId) ==
    IF existingChunks = <<>> THEN "new"
    ELSE LET existing == Head(existingChunks)
         IN IF Truthy(docId) /\ Truthy(existing.docId) /\ docId # existing.docId
            THEN isDuplicate(newChunk, Tail(existingChunks), docId)
            ELSE IF existing.contentHash = newChunk.contentHash THEN "dup"
            ELSE IF cosineThrows(newChunk.embedding, existing.embedding) THEN "throw"
            ELSE IF AtLeastPct(cosineSimilarity(newChunk.embedding, existing.embedding),
                               SIMILARITY_DEDUP_THRESHOLD)
                 THEN "dup"
            ELSE isDuplicate(newChunk, Tail(existingChunks), docId)

----------------------------------------------------------------------------
(* Min-heap top-K selection                                                *)

\* the comparator of findSimilarEmbeddings: (a, b) => a.score - b.score
compareFn(a, b) == a.score - b.score

Swap(h, i, j) == [h EXCEPT ![i] = h[j], ![j] = h[i]]

\* indices are 1-based: parent of i is i \div 2, children 2i and 2i + 1
RECURSIVE bubbleUp(_, _)
bubbleUp(h, index) ==
    IF index <= 1 THEN h
    ELSE LET parentIndex == index \div 2
         IN IF compareFn(h[index], h[parentIndex]) >= 0 THEN h
            ELSE bubbleUp(Swap(h, index, parentIndex), parentIndex)

\* a sift-down that never looks at the right child
RECURSIVE bubbleDownLeftOnly(_, _)
bubbleDownLeftOnly(h, index) ==
    LET leftChild == 2 * index
    IN IF leftChild <= Len(h) /\ compareFn(h[leftChild], h[index]) < 0
       THEN bubbleDownLeftOnly(Swap(h, index, leftChild), leftChild)
       ELSE h

RECURSIVE bubbleDown(_, _)
bubbleDown(h, index) ==
    LET leftChild == 2 * index
        rightChild == 2 * index + 1
        m1 == IF leftChild <= Len(h) /\ compareFn(h[leftChild], h[index]) < 0
              THEN leftChild ELSE index
        minIndex == IF rightChild <= Len(h) /\ compareFn(h[rightChild], h[m1]) < 0
                    THEN rightChild ELSE m1
    IN IF minIndex = index THEN h
       ELSE bubbleDown(Swap(h, index, minIndex), minIndex)

\* MinHeap.push raises a TypeError when it reads heap[0].score of an empty
\* heap, which happens when maxSize <= 0
pushThrows(h, maxSize) == ~(Len(h) < maxSize) /\ h = <<>>

push(h, item, maxSize) ==
    IF Len(h) < maxSize THEN bubbleUp(Append(h, item), Len(h) + 1)
    ELSE IF compareFn(item, h[1]) > 0 THEN bubbleDown([h EXCEPT ![1] = item], 1)
    ELSE h

\* Array.prototype.sort((a, b) => b.score - a.score): stable, descending
RECURSIVE InsertDesc(_, _)
InsertDesc(sorted, item) ==
    IF sorted = <<>> THEN <<item>>
    ELSE IF Head(sorted).score >= item.score
         THEN <<Head(sorted)>> \o InsertDesc(Tail(sorted), item)
         ELSE <<item>> \o sorted

RECURSIVE SortByScoreDesc(_)
SortByScoreDesc(items) ==
    IF items = <<>> THEN <<>>
    ELSE InsertDesc(SortByScoreDesc(SubSeq(items, 1, Len(items) - 1)), items[Len(items)])

toSortedArray(h) == SortByScoreDesc(h)

\* the loop of findSimilarEmbeddings: st = [throws, heap]
RECURSIVE SimilarLoop(_, _, _, _, _)
SimilarLoop(queryEmbedding, chunks, topK, threshold, st) ==
    IF chunks = <<>> \/ st.throws THEN st
    ELSE LET item == Head(chunks)
             score == cosineSimilarity(queryEmbedding, item.embedding)
             st1 == IF cosineThrows(queryEmbedding, item.embedding)
                    THEN [st EXCEPT !.throws = TRUE]
                    ELSE IF ~AtLeastPct(score, threshold) THEN st
                    ELSE IF pushThrows(st.heap, topK) THEN [st EXCEPT !.throws = TRUE]
                    ELSE [st EXCEPT !.heap = push(st.heap, [content |-> item, score |-> score], topK)]
         IN SimilarLoop(queryEmbedding, Tail(chunks), topK, threshold, st1)

\* [throws |-> an exception left the function, items |-> the result]
findSimilarEmbeddings(queryEmbedding, chunks, topK, threshold) ==
    LET st == SimilarLoop(queryEmbedding, chunks, topK, threshold,
                          [throws |-> FALSE, heap |-> <<>>])
    IN [throws |-> st.throws, items |-> IF st.throws THEN <<>> ELSE toSortedArray(st.heap)]

\* the selection of findSimilarEmbeddings on items whose score is known:
\* every item at or above the threshold is pushed with maxSize topK
RECURSIVE PushAll(_, _, _, _)
PushAll(items, topK, threshold, h) ==
    IF items = <<>> THEN h
    ELSE PushAll(Tail(items), topK, threshold,
                 IF Head(items).score >= threshold THEN push(h, Head(items), topK) ELSE h)

HeapSelect(items, topK, threshold) == toSortedArray(PushAll(items, topK, threshold, <<>>))

\* the earlier findSimilarEmbeddings: filter, sort descending, slice(0, topK)
SortSelect(items, topK, threshold) ==
    SliceTo(SortByScoreDesc(SelectSeq(items, LAMBDA item : item.score >= threshold)), topK)

----------------------------------------------------------------------------
(* Relevance tiers and semantic firewall                                   *)

RECURSIVE MaxScoreOf(_)
\* Math.max(...scores) of a non-empty list
MaxScoreOf(items) ==
    IF Len(items) = 1 THEN items[1].score
    ELSE Max(items[1].score, MaxScoreOf(Tail(items)))

\* a floor of the first tier that ignores the best score
HighFloorOfMinScore(score, minScore, maxScore) == AtLeastPct(score, minScore)

\* score >= Math.max(minScore, maxScore * 0.7), minScore in percent
HighFloorReached(score, minScore, maxScore) ==
    AtLeastPct(score, minScore) /\ 10 * score >= 7 * maxScore
\* score >= Math.max(0.15, maxScore * 0.4)
ModerateFloorReached(score, maxScore) ==
    AtLeastPct(score, 15) /\ 10 * score >= 4 * maxScore

categorizeByRelevance(chunks, minScore) ==
    IF chunks = <<>>
    THEN [highlyRelevant |-> <<>>, moderatelyRelevant |-> <<>>,
          somewhatRelevant |-> <<>>, maxScore |-> 0]
    ELSE LET maxScore == MaxScoreOf(chunks)
             IsHigh(c) == HighFloorReached(c.score, minScore, maxScore)
             IsModerate(c) == /\ ModerateFloorReached(c.score, maxScore)
                              /\ ~HighFloorReached(c.score, minScore, maxScore)
             IsSomewhat(c) == /\ AtLeastPct(c.score, 5)
                              /\ ~ModerateFloorReached(c.score, maxScore)
         IN [highlyRelevant |-> SelectSeq(chunks, IsHigh),
             moderatelyRelevant |-> SelectSeq(chunks, IsModerate),
             somewhatRelevant |-> SelectSeq(chunks, IsSomewhat),
             maxScore |-> maxScore]

\* keys of chunksByDocId in insertion order
RECURSIVE DocIdsInOrder(_, _)
DocIdsInOrder(chunks, seen) ==
    IF chunks = <<>> THEN seen
    ELSE LET d == Head(chunks).content.docId
         IN IF Truthy(d) /\ ~(\E i \in 1..Len(seen) : seen[i] = d)
            THEN DocIdsInOrder(Tail(chunks), Append(seen, d))
            ELSE DocIdsInOrder(Tail(chunks), seen)

MAX_PER_DOC == 3

RECURSIVE BestOfDocs(_, _)
BestOfDocs(chunks, docIds) ==
    IF docIds = <<>> THEN <<>>
    ELSE LET OfDoc(c) == c.content.docId = Head(docIds)
             docChunks == SortByScoreDesc(SelectSeq(chunks, OfDoc))
         IN SubSeq(docChunks, 1, Min(MAX_PER_DOC, Len(docChunks)))
              \o BestOfDocs(chunks, Tail(docIds))

\* the first chunks of each document in the order given, not its best
RECURSIVE FirstOfDocs(_, _)
FirstOfDocs(chunks, docIds) ==
    IF docIds = <<>> THEN <<>>
    ELSE LET OfDoc(c) == c.content.docId = Head(docIds)
             docChunks == SelectSeq(chunks, OfDoc)
         IN SubSeq(docChunks, 1, Min(MAX_PER_DOC, Len(docChunks)))
              \o FirstOfDocs(chunks, Tail(docIds))

\* a firewall that keeps the first three chunks of a document
applySemanticFirewallInOrder(chunks) ==
    IF chunks = <<>> THEN chunks
    ELSE LET Orphan(c) == ~Truthy(c.content.docId)
         IN SortByScoreDesc(FirstOfDocs(chunks, DocIdsInOrder(chunks, <<>>))
                            \o SelectSeq(chunks, Orphan))

applySemanticFirewall(chunks) ==
    IF chunks = <<>> THEN chunks
    ELSE LET Orphan(c) == ~Truthy(c.content.docId)
             orphanChunks == SelectSeq(chunks, Orphan)
             filteredChunks == BestOfDocs(chunks, DocIdsInOrder(chunks, <<>>)) \o orphanChunks
         IN SortByScoreDesc(filteredChunks)

----------------------------------------------------------------------------
(* The embedding provider                                                  *)

\* The provider is a deterministic function of the text for each embedding
\* model; "dim3" returns vectors of length 3, "dim1" of length 1.
EmbeddingModels == {"dim3", "dim1"}

generateEmbedding(text, model) ==
    IF model = "dim1" THEN <<3>>
    ELSE CASE text = <<"a", "b">> -> <<1, 2, 2>>
           [] text = <<"A", "B">> -> <<2, 1, 2>>
           [] text = <<"a", "c">> -> <<2, 1, 2>>
           [] text = <<"d", "c">> -> <<2, 2, 1>>
           [] text = <<"b", "d">> -> <<-1, 2, 2>>
           [] text = <<"c", "d">> -> <<2, 4, 4>>
           [] text = <<"b", "\n", "\n", "c", "d">> -> <<1, -2, 2>>
           [] text = <<"b", "a">> -> <<2, 2, -1>>
           [] text = <<"d", "b">> -> <<1, -2, 2>>
           [] OTHER -> <<0, 0, 0>>

\* order-preserving batch
generateEmbeddings(texts, model) ==
    [i \in 1..Len(texts) |-> generateEmbedding(texts[i], model)]

----------------------------------------------------------------------------
(* State                                                                   *)

Procs == {1, 2}

VARIABLES
    file,      \* the document .memory/memory.json
    call,      \* per caller: the call in flight, or the call that just finished
    nextId,    \* randomUUID: ids handed out so far
    clock,     \* new Date()
    calls,     \* calls begun
    input,     \* argument of a pure function under check
    output     \* its result

vars == <<file, call, nextId, clock, calls, input, output>>

\* the persisted document: kind "store" is a valid store document; the
\* other kinds are a missing file, an unreadable file, a file that is not
\* JSON and a JSON document without a chunks array
StoreFile(chunks, totalChunks) ==
    [kind |-> "store", chunks |-> chunks, totalChunks |-> totalChunks]
BrokenFile(kind) == [kind |-> kind, chunks |-> <<>>, totalChunks |-> 0]
BrokenKinds == {"missing", "unreadable", "badjson", "nochunks"}

\* loadMemoryStore: a failing readFile, a failing JSON.parse and the failing
\* structure check all end in the catch that returns an empty store
loadMemoryStore(f) ==
    IF f.kind \in {"missing", "unreadable"} THEN [chunks |-> <<>>, totalChunks |-> 0]
    ELSE IF f.kind = "badjson" THEN [chunks |-> <<>>, totalChunks |-> 0]
    ELSE IF f.kind = "nochunks" THEN [chunks |-> <<>>, totalChunks |-> 0]
    ELSE [chunks |-> f.chunks, totalChunks |-> f.totalChunks]

\* a write that leaves totalChunks at the 0 of the empty store
saveMemoryStoreWithoutCount(store) == StoreFile(store.chunks, 0)

\* saveMemoryStore, its write succeeding: totalChunks is recomputed and the
\* document replaced as a whole
saveMemoryStore(store) == StoreFile(store.chunks, Len(store.chunks))

\* getMemoryStats: totalChunks is the field of the document, totalSize the
\* sum of the lengths of the chunks' contents
RECURSIVE TotalSize(_)
TotalSize(chunks) ==
    IF chunks = <<>> THEN 0 ELSE Len(Head(chunks).content) + TotalSize(Tail(chunks))

getMemoryStats(f) ==
    LET store == loadMemoryStore(f)
    IN [totalChunks |-> store.totalChunks, totalSize |-> TotalSize(store.chunks)]

NoQuery == <<"undefined">>
QueryGiven(q) == q # NoQuery /\ q # <<>>

NoResult == [success |-> FALSE, error |-> "", kind |-> "pending",
             saved |-> 0, skipped |-> 0, relevantChunks |-> <<>>, level |-> "",
             stats |-> [totalChunks |-> 0, totalSize |-> 0]]

Failure(error) == [NoResult EXCEPT !.kind = "error", !.error = error]
Success(kind, relevantChunks) ==
    [NoResult EXCEPT !.success = TRUE, !.kind = kind, !.relevantChunks = relevantChunks]

\* a call: its arguments, its position, its locals, its result (res), and
\* what it has seen and done (pre .. raised), kept for the properties
IdleCall == [op |-> "none", pc |-> "idle",
             content |-> <<>>, append |-> FALSE, docId |-> None,
             query |-> NoQuery, maxResults |-> 0, useRAG |-> FALSE, minScore |-> 0,
             store |-> <<>>, textChunks |-> <<>>, selected |-> <<>>,
             res |-> NoResult,
             pre |-> BrokenFile("missing"), loaded |-> <<>>, embeddings |-> <<>>,
             candidates |-> <<>>, missed |-> {},
             embedCalls |-> 0, llmCalls |-> 0,
             embedFailed |-> FALSE, llmFailed |-> FALSE, raised |-> FALSE]

Free(p) == call[p].pc = "idle"
InFlight(p) == call[p].pc \notin {"idle", "done"}

\* a finished call hands its result to its caller before anything else runs
NoneDone == \A q \in Procs : call[q].pc # "done"

\* a caller begins a call when it has none in flight; caller 2 only
\* overlaps a call of caller 1
MayBegin(p) ==
    /\ NoneDone
    /\ Free(p)
    /\ calls < MaxCalls
    /\ p = 2 => InFlight(1)

Finish(rec, res) ==
    [rec EXCEPT !.pc = "done", !.res = res, !.store = <<>>, !.textChunks = <<>>,
                !.selected = <<>>]

\* a catch block that lets the error escape to the caller
Uncaught(rec, error) == [Finish(rec, NoResult) EXCEPT !.raised = TRUE]

\* the catch blocks of saveMemory, loadMemory and clearMemory
Caught(rec, error) == Finish(rec, Failure(error))

ChunkIds(chunks) == {chunks[i].id : i \in 1..Len(chunks)}
ChunkSet(chunks) == {chunks[i] : i \in 1..Len(chunks)}

\* a write of caller p has replaced the document: the saves in flight that
\* have read it before have missed the chunks the write added
Missed(c, p, added) ==
    [q \in Procs |-> IF q # p /\ c[q].op = "save" /\ InFlight(q)
                     THEN [c[q] EXCEPT !.missed = @ \cup added] ELSE c[q]]

TypeOK ==
    /\ file.kind \in BrokenKinds \cup {"store"}
    /\ \A p \in Procs : call[p].pc \in
           {"idle", "done", "embedding", "writing", "embedQuery", "llm", "llmFallback"}
    /\ nextId \in Nat /\ clock \in Nat /\ calls \in 0..MaxCalls

----------------------------------------------------------------------------
(* saveMemory                                                              *)

\* a save that keeps every chunk whatever append says
KeptAll(chunks, append, docId) == chunks

\* a save that starts from an empty store whatever append says
KeptNone(chunks, append, docId) == <<>>

\* lines 223-229: what a save that does not append keeps of the store
KeptOnSave(chunks, append, docId) ==
    IF ~append /\ Truthy(docId)
    THEN LET OtherDoc(c) == c.docId # docId IN SelectSeq(chunks, OtherDoc)
    ELSE IF ~append THEN <<>>
    ELSE chunks

\* a loop that counts a duplicate as skipped and stores it all the same
RECURSIVE DedupLoopKeepingDuplicates(_, _, _, _, _, _, _, _)
DedupLoopKeepingDuplicates(textChunks, embeddings, index, storeChunks, docId, now, firstId, st) ==
    IF index > Len(textChunks) \/ st.throws THEN st
    ELSE LET contentHash == generateContentHash(textChunks[index])
             dup == isDuplicate([content |-> textChunks[index], contentHash |-> contentHash,
                                 embedding |-> embeddings[index]], storeChunks, docId)
             memoryChunk == [id |-> firstId + Len(st.newChunks),
                             content |-> textChunks[index],
                             embedding |-> embeddings[index],
                             timestamp |-> now,
                             docId |-> docId,
                             contentHash |-> contentHash,
                             chunkIndex |-> index - 1,
                             chunkCount |-> Len(textChunks)]
             st1 == IF dup = "throw" THEN [st EXCEPT !.throws = TRUE]
                    ELSE IF dup = "dup"
                    THEN [st EXCEPT !.duplicatesSkipped = @ + 1,
                                    !.newChunks = Append(@, memoryChunk)]
                    ELSE [st EXCEPT !.newChunks = Append(@, memoryChunk)]
         IN DedupLoopKeepingDuplicates(textChunks, embeddings, index + 1, storeChunks, docId,
                                       now, firstId, st1)

\* the loop of lines 252-285: st = [throws, newChunks, duplicatesSkipped]
RECURSIVE DedupLoop(_, _, _, _, _, _, _, _)
DedupLoop(textChunks, embeddings, index, storeChunks, docId, now, firstId, st) ==
    IF index > Len(textChunks) \/ st.throws THEN st
    ELSE LET chunk == textChunks[index]
             embedding == embeddings[index]
             contentHash == generateContentHash(chunk)
             candidateChunk == [content |-> chunk, contentHash |-> contentHash,
                                embedding |-> embedding]
             dup == isDuplicate(candidateChunk, storeChunks, docId)
             memoryChunk == [id |-> firstId + Len(st.newChunks),
                             content |-> chunk,
                             embedding |-> embedding,
                             timestamp |-> now,
                             docId |-> docId,
                             contentHash |-> contentHash,
                             chunkIndex |-> index - 1,
                             chunkCount |-> Len(textChunks)]
             st1 == IF dup = "throw" THEN [st EXCEPT !.throws = TRUE]
                    ELSE IF dup = "dup"
                    THEN [st EXCEPT !.duplicatesSkipped = @ + 1]
                    ELSE [st EXCEPT !.newChunks = Append(@, memoryChunk)]
         IN DedupLoop(textChunks, embeddings, index + 1, storeChunks, docId, now, firstId, st1)

\* saveMemory up to its await of the embeddings (lines 221-243); the call
\* begins at the moment its readFile reads the document
saveMemoryBegin(p, content, append, docId) ==
    /\ MayBegin(p)
    /\ LET store == loadMemoryStore(file)
           kept == KeptOnSave(store.chunks, append, docId)
           textChunks == splitIntoChunks(content, CHUNK_SIZE, CHUNK_OVERLAP)
           rec == [IdleCall EXCEPT !.op = "save", !.content = content, !.append = append,
                                   !.docId = docId, !.pre = file, !.loaded = store.chunks]
       IN call' = [call EXCEPT ![p] =
              IF Len(textChunks) = 0
              THEN Finish(rec, Failure("No content to save"))
              ELSE [rec EXCEPT !.pc = "embedding", !.store = kept,
                               !.textChunks = textChunks, !.embedCalls = 1]]
    /\ calls' = calls + 1
    /\ UNCHANGED <<file, nextId, clock, input, output>>

\* an embedding failure after which the trimmed in-memory store is written
saveMemoryEmbeddingFailedPersisting(p) ==
    /\ NoneDone
    /\ call[p].pc = "embedding"
    /\ file' = saveMemoryStore([chunks |-> call[p].store])
    /\ call' = [call EXCEPT ![p] =
           Caught([@ EXCEPT !.embedFailed = TRUE], "Failed to generate embeddings")]
    /\ UNCHANGED <<nextId, clock, calls, input, output>>

\* the embedding call fails (line 243 throws into the catch)
saveMemoryEmbeddingFailed(p) ==
    /\ NoneDone
    /\ call[p].pc = "embedding"
    /\ call' = [call EXCEPT ![p] =
           Caught([@ EXCEPT !.embedFailed = TRUE], "Failed to generate embeddings")]
    /\ UNCHANGED <<file, nextId, clock, calls, input, output>>

\* a save whose ids are handed out again to the chunks of the next save
saveMemoryEmbeddedReusingIds(p, model) ==
    /\ NoneDone
    /\ call[p].pc = "embedding"
    /\ LET rec == [call[p] EXCEPT
                      !.embeddings = generateEmbeddings(call[p].textChunks, model)]
           now == clock + 1
           st == DedupLoop(rec.textChunks, rec.embeddings, 1, rec.store, rec.docId, now,
                           nextId,
                           [throws |-> FALSE, newChunks |-> <<>>, duplicatesSkipped |-> 0])
       IN /\ call' = [call EXCEPT ![p] =
                IF st.throws
                THEN Caught(rec, "Vectors must have the same length")
                ELSE [rec EXCEPT !.pc = "writing",
                                 !.store = rec.store \o st.newChunks,
                                 !.res = [NoResult EXCEPT !.saved = Len(st.newChunks),
                                                          !.skipped = st.duplicatesSkipped]]]
          /\ nextId' = nextId
          /\ clock' = now
    /\ UNCHANGED <<file, calls, input, output>>

\* the embeddings arrive: lines 246-288 and saveMemoryStore up to its await
saveMemoryEmbedded(p, model) ==
    /\ NoneDone
    /\ call[p].pc = "embedding"
    /\ LET rec == [call[p] EXCEPT
                      !.embeddings = generateEmbeddings(call[p].textChunks, model)]
           now == clock + 1
           st == DedupLoop(rec.textChunks, rec.embeddings, 1, rec.store, rec.docId, now,
                           nextId,
                           [throws |-> FALSE, newChunks |-> <<>>, duplicatesSkipped |-> 0])
       IN /\ call' = [call EXCEPT ![p] =
                IF st.throws
                THEN Caught(rec, "Vectors must have the same length")
                ELSE [rec EXCEPT !.pc = "writing",
                                 !.store = rec.store \o st.newChunks,
                                 !.res = [NoResult EXCEPT !.saved = Len(st.newChunks),
                                                          !.skipped = st.duplicatesSkipped]]]
          /\ nextId' = IF st.throws THEN nextId ELSE nextId + Len(st.newChunks)
          /\ clock' = now
    /\ UNCHANGED <<file, calls, input, output>>

\* a write that reads the document again and adds its new chunks to it
saveMemoryWrittenMerging(p) ==
    /\ NoneDone
    /\ call[p].pc = "writing"
    /\ LET new == SubSeq(call[p].store, Len(call[p].store) - call[p].res.saved + 1,
                         Len(call[p].store))
       IN /\ file' = saveMemoryStore([chunks |-> loadMemoryStore(file).chunks \o new])
          /\ call' = [Missed(call, p, ChunkIds(new)) EXCEPT ![p] =
                 Finish(call[p], [Success("saved", <<>>) EXCEPT
                                     !.saved = call[p].res.saved,
                                     !.skipped = call[p].res.skipped])]
    /\ UNCHANGED <<nextId, clock, calls, input, output>>

\* a save that reports success and leaves the document as it is
saveMemoryWrittenNowhere(p) ==
    /\ NoneDone
    /\ call[p].pc = "writing"
    /\ call' = [call EXCEPT ![p] =
           Finish(call[p], [Success("saved", <<>>) EXCEPT
                               !.saved = call[p].res.saved,
                               !.skipped = call[p].res.skipped])]
    /\ UNCHANGED <<file, nextId, clock, calls, input, output>>

\* mkdir and writeFile succeed (line 291, then 293-302)
saveMemoryWritten(p) ==
    /\ NoneDone
    /\ call[p].pc = "writing"
    /\ file' = saveMemoryStore([chunks |-> call[p].store])
    /\ LET new == SubSeq(call[p].store, Len(call[p].store) - call[p].res.saved + 1,
                         Len(call[p].store))
       IN call' = [Missed(call, p, ChunkIds(new)) EXCEPT ![p] =
              Finish(call[p], [Success("saved", <<>>) EXCEPT
                                  !.saved = call[p].res.saved,
                                  !.skipped = call[p].res.skipped])]
    /\ UNCHANGED <<nextId, clock, calls, input, output>>

\* mkdir or writeFile fails (line 291 throws into the catch)
saveMemoryWriteFailed(p) ==
    /\ NoneDone
    /\ call[p].pc = "writing"
    /\ call' = [call EXCEPT ![p] = Caught(@, "write failed")]
    /\ UNCHANGED <<file, nextId, clock, calls, input, output>>

----------------------------------------------------------------------------
(* clearMemory                                                             *)

\* a clear that reports success and leaves the document as it is
clearMemoryNowhere(p) ==
    /\ MayBegin(p)
    /\ call' = [call EXCEPT ![p] =
           Finish([IdleCall EXCEPT !.op = "clear", !.pre = file], Success("cleared", <<>>))]
    /\ calls' = calls + 1
    /\ UNCHANGED <<file, nextId, clock, input, output>>

\* lines 575-589: the empty store is written
clearMemory(p) ==
    /\ MayBegin(p)
    /\ file' = saveMemoryStore([chunks |-> <<>>])
    /\ call' = [call EXCEPT ![p] =
           Finish([IdleCall EXCEPT !.op = "clear", !.pre = file], Success("cleared", <<>>))]
    /\ calls' = calls + 1
    /\ UNCHANGED <<nextId, clock, input, output>>

\* lines 590-595: mkdir or writeFile fails
clearMemoryFailed(p) ==
    /\ MayBegin(p)
    /\ call' = [call EXCEPT ![p] =
           Caught([IdleCall EXCEPT !.op = "clear", !.pre = file], "write failed")]
    /\ calls' = calls + 1
    /\ UNCHANGED <<file, nextId, clock, input, output>>

----------------------------------------------------------------------------
(* loadMemory                                                              *)

\* chunks.sort((a, b) => new Date(b.timestamp) - new Date(a.timestamp)): stable
RECURSIVE InsertRecent(_, _)
InsertRecent(sorted, chunk) ==
    IF sorted = <<>> THEN <<chunk>>
    ELSE IF Head(sorted).timestamp >= chunk.timestamp
         THEN <<Head(sorted)>> \o InsertRecent(Tail(sorted), chunk)
         ELSE <<chunk>> \o sorted

RECURSIVE SortByTimestampDesc(_)
SortByTimestampDesc(chunks) ==
    IF chunks = <<>> THEN <<>>
    ELSE InsertRecent(SortByTimestampDesc(SubSeq(chunks, 1, Len(chunks) - 1)),
                      chunks[Len(chunks)])

RECENT_LIMIT == 10
CANDIDATE_FACTOR == 4
CANDIDATE_LIMIT == 20
SEARCH_THRESHOLD == 5

\* a selection that fills the result up from the lower tiers
SelectByTierFilling(allSimilarChunks, maxResults, minScore) ==
    LET tiers == categorizeByRelevance(allSimilarChunks, minScore)
        level == IF Len(tiers.highlyRelevant) > 0 THEN "highly relevant"
                 ELSE IF Len(tiers.moderatelyRelevant) > 0 THEN "moderately relevant"
                 ELSE "potentially related"
        selectedChunks == SliceTo(applySemanticFirewall(tiers.highlyRelevant)
                                  \o applySemanticFirewall(tiers.moderatelyRelevant)
                                  \o applySemanticFirewall(tiers.somewhatRelevant), maxResults)
    IN [level |-> level,
        relevantChunks |-> [i \in 1..Len(selectedChunks) |-> selectedChunks[i].content]]

\* a selection that takes the last maxResults chunks of the tier, not the first
SelectByTierFromEnd(allSimilarChunks, maxResults, minScore) ==
    LET tiers == categorizeByRelevance(allSimilarChunks, minScore)
        level == IF Len(tiers.highlyRelevant) > 0 THEN "highly relevant"
                 ELSE IF Len(tiers.moderatelyRelevant) > 0 THEN "moderately relevant"
                 ELSE "potentially related"
        tier == IF level = "highly relevant" THEN tiers.highlyRelevant
                ELSE IF level = "moderately relevant" THEN tiers.moderatelyRelevant
                ELSE tiers.somewhatRelevant
        selectedChunks == SliceFrom(applySemanticFirewall(tier),
                                    Max(0, Len(applySemanticFirewall(tier)) - maxResults))
    IN [level |-> level,
        relevantChunks |-> [i \in 1..Len(selectedChunks) |-> selectedChunks[i].content]]

\* lines 462-490: the tier the result is taken from and the chunks selected
SelectByTier(allSimilarChunks, maxResults, minScore) ==
    LET tiers == categorizeByRelevance(allSimilarChunks, minScore)
        level == IF Len(tiers.highlyRelevant) > 0 THEN "highly relevant"
                 ELSE IF Len(tiers.moderatelyRelevant) > 0 THEN "moderately relevant"
                 ELSE "potentially related"
        tier == IF level = "highly relevant" THEN tiers.highlyRelevant
                ELSE IF level = "moderately relevant" THEN tiers.moderatelyRelevant
                ELSE tiers.somewhatRelevant
        selectedChunks == SliceTo(applySemanticFirewall(tier), maxResults)
    IN [level |-> level,
        relevantChunks |-> [i \in 1..Len(selectedChunks) |-> selectedChunks[i].content]]

\* a fallback to the first chunks of the store, in the order of the store
FallbackChunksInStoreOrder(chunks, maxResults) ==
    SliceTo(chunks, Min(maxResults, Len(chunks)))

\* no fallback to the recent chunks
FallbackChunksNone(chunks, maxResults) == <<>>

\* lines 418-420: the most recent chunks of the no-candidate fallback
FallbackChunks(chunks, maxResults) ==
    SliceTo(SortByTimestampDesc(chunks), Min(maxResults, Len(chunks)))

\* a load that embeds the query of an empty store
loadMemoryBeginUnchecked(p, query, maxResults, useRAG, minScore) ==
    /\ MayBegin(p)
    /\ LET store == loadMemoryStore(file)
           rec == [IdleCall EXCEPT !.op = "load", !.query = query, !.maxResults = maxResults,
                                   !.useRAG = useRAG, !.minScore = minScore,
                                   !.pre = file, !.loaded = store.chunks]
       IN call' = [call EXCEPT ![p] =
              IF ~QueryGiven(query)
              THEN Finish(rec, Success(IF Len(store.chunks) = 0 THEN "empty" ELSE "recent",
                                       SliceTo(SortByTimestampDesc(store.chunks),
                                               Min(RECENT_LIMIT, Len(store.chunks)))))
              ELSE [rec EXCEPT !.pc = "embedQuery", !.store = store.chunks, !.embedCalls = 1]]
    /\ calls' = calls + 1
    /\ UNCHANGED <<file, nextId, clock, input, output>>

\* a load whose recent chunks are capped at twice maxResults
loadMemoryBeginTwiceMaxResults(p, query, maxResults, useRAG, minScore) ==
    /\ MayBegin(p)
    /\ LET store == loadMemoryStore(file)
           rec == [IdleCall EXCEPT !.op = "load", !.query = query, !.maxResults = maxResults,
                                   !.useRAG = useRAG, !.minScore = minScore,
                                   !.pre = file, !.loaded = store.chunks]
           recentChunks == SliceTo(SortByTimestampDesc(store.chunks),
                                   Min(2 * maxResults, Len(store.chunks)))
       IN call' = [call EXCEPT ![p] =
              IF Len(store.chunks) = 0 THEN Finish(rec, Success("empty", <<>>))
              ELSE IF ~QueryGiven(query) THEN Finish(rec, Success("recent", recentChunks))
              ELSE [rec EXCEPT !.pc = "embedQuery", !.store = store.chunks, !.embedCalls = 1]]
    /\ calls' = calls + 1
    /\ UNCHANGED <<file, nextId, clock, input, output>>

\* a load that writes the store back in the order it sorted it in
loadMemoryBeginSavingSorted(p, query, maxResults, useRAG, minScore) ==
    /\ MayBegin(p)
    /\ LET store == loadMemoryStore(file)
           rec == [IdleCall EXCEPT !.op = "load", !.query = query, !.maxResults = maxResults,
                                   !.useRAG = useRAG, !.minScore = minScore,
                                   !.pre = file, !.loaded = store.chunks]
           recentChunks == SliceTo(SortByTimestampDesc(store.chunks),
                                   Min(RECENT_LIMIT, Len(store.chunks)))
       IN call' = [call EXCEPT ![p] =
              IF Len(store.chunks) = 0 THEN Finish(rec, Success("empty", <<>>))
              ELSE IF ~QueryGiven(query) THEN Finish(rec, Success("recent", recentChunks))
              ELSE [rec EXCEPT !.pc = "embedQuery", !.store = store.chunks, !.embedCalls = 1]]
    /\ file' = IF file.kind = "store"
               THEN saveMemoryStore([chunks |-> SortByTimestampDesc(file.chunks)])
               ELSE file
    /\ calls' = calls + 1
    /\ UNCHANGED <<nextId, clock, input, output>>

\* loadMemory up to its await of the query embedding (lines 378-406)
loadMemoryBegin(p, query, maxResults, useRAG, minScore) ==
    /\ MayBegin(p)
    /\ LET store == loadMemoryStore(file)
           rec == [IdleCall EXCEPT !.op = "load", !.query = query, !.maxResults = maxResults,
                                   !.useRAG = useRAG, !.minScore = minScore,
                                   !.pre = file, !.loaded = store.chunks]
           recentChunks == SliceTo(SortByTimestampDesc(store.chunks),
                                   Min(RECENT_LIMIT, Len(store.chunks)))
       IN call' = [call EXCEPT ![p] =
              IF Len(store.chunks) = 0 THEN Finish(rec, Success("empty", <<>>))
              ELSE IF ~QueryGiven(query) THEN Finish(rec, Success("recent", recentChunks))
              ELSE [rec EXCEPT !.pc = "embedQuery", !.store = store.chunks, !.embedCalls = 1]]
    /\ calls' = calls + 1
    /\ UNCHANGED <<file, nextId, clock, input, output>>

\* the query embedding fails (line 406 throws into the catch of line 533)
loadMemoryEmbeddingFailed(p) ==
    /\ NoneDone
    /\ call[p].pc = "embedQuery"
    /\ call' = [call EXCEPT ![p] =
           Caught([@ EXCEPT !.embedFailed = TRUE], "Failed to generate embedding")]
    /\ UNCHANGED <<file, nextId, clock, calls, input, output>>

\* the query embedding arrives: lines 408-497 up to the await of the LLM
loadMemoryEmbedded(p, model) ==
    /\ NoneDone
    /\ call[p].pc = "embedQuery"
    /\ LET queryEmbedding == generateEmbedding(call[p].query, model)
           rec == [call[p] EXCEPT !.embeddings = <<queryEmbedding>>]
           found == findSimilarEmbeddings(queryEmbedding, rec.store,
                        Min(rec.maxResults * CANDIDATE_FACTOR, CANDIDATE_LIMIT),
                        SEARCH_THRESHOLD)
           allSimilarChunks == found.items
           fallbackChunks == FallbackChunks(rec.store, rec.maxResults)
           sel == SelectByTier(allSimilarChunks, rec.maxResults, rec.minScore)
       IN call' = [call EXCEPT ![p] =
              IF found.throws THEN Caught(rec, "search failed")
              ELSE IF Len(allSimilarChunks) = 0
              THEN IF rec.useRAG /\ Len(fallbackChunks) > 0
                   THEN [rec EXCEPT !.pc = "llmFallback", !.selected = fallbackChunks,
                                    !.llmCalls = 1]
                   ELSE Finish(rec, Success("fallbackNotice", fallbackChunks))
              ELSE IF rec.useRAG /\ Len(sel.relevantChunks) > 0
                   THEN [rec EXCEPT !.pc = "llm", !.selected = sel.relevantChunks,
                                    !.candidates = allSimilarChunks,
                                    !.res = [NoResult EXCEPT !.level = sel.level],
                                    !.llmCalls = 1]
                   ELSE Finish([rec EXCEPT !.candidates = allSimilarChunks],
                               [Success("context", sel.relevantChunks)
                                   EXCEPT !.level = sel.level])]
    /\ UNCHANGED <<file, nextId, clock, calls, input, output>>

\* the LLM answers (lines 441-448, 517-518 and 526-532)
loadMemoryAnswered(p) ==
    /\ NoneDone
    /\ call[p].pc \in {"llm", "llmFallback"}
    /\ call' = [call EXCEPT ![p] =
           Finish(@, [Success("generated", @.selected) EXCEPT !.level = call[p].res.level])]
    /\ UNCHANGED <<file, nextId, clock, calls, input, output>>

\* an LLM failure that fails the load
loadMemoryLLMFailedAsError(p) ==
    /\ NoneDone
    /\ call[p].pc \in {"llm", "llmFallback"}
    /\ call' = [call EXCEPT ![p] = Caught([@ EXCEPT !.llmFailed = TRUE], "LLM failed")]
    /\ UNCHANGED <<file, nextId, clock, calls, input, output>>

\* the LLM call fails (lines 449-459 and 519-532)
loadMemoryLLMFailed(p) ==
    /\ NoneDone
    /\ call[p].pc \in {"llm", "llmFallback"}
    /\ LET rec == [call[p] EXCEPT !.llmFailed = TRUE]
       IN call' = [call EXCEPT ![p] =
              IF rec.pc = "llm"
              THEN Finish(rec, [Success("contextWithLevel", rec.selected)
                                   EXCEPT !.level = rec.res.level])
              ELSE Finish(rec, Success("fallbackNotice", rec.selected))]
    /\ UNCHANGED <<file, nextId, clock, calls, input, output>>

\* the caller of a finished call takes its result
Return(p) ==
    /\ call[p].pc = "done"
    /\ call' = [call EXCEPT ![p] = IdleCall]
    /\ UNCHANGED <<file, nextId, clock, calls, input, output>>

----------------------------------------------------------------------------
(* Specification: one caller, one call at a time                           *)

Contents ==
    { <<" ", "\n">>,
      <<"A", "B", " ">>,
      <<"c", "d">>,
      <<"a", "b", "\n", "\n", "c", "d">> }

DocIds == {None, "", "d1", "d2"}

Queries == {NoQuery, <<"a", "b">>, <<"z", "z">>}
MaxResultsValues == {1}
MinScores == {30}

\* one step of a loadMemory of caller p, its inputs drawn from the given sets
LoadStep(p, queries, maxResultsValues, minScores) ==
    \/ \E query \in queries, maxResults \in maxResultsValues, useRAG \in BOOLEAN,
          minScore \in minScores :
           loadMemoryBegin(p, query, maxResults, useRAG, minScore)
    \/ loadMemoryEmbeddingFailed(p)
    \/ \E model \in EmbeddingModels : loadMemoryEmbedded(p, model)
    \/ loadMemoryAnswered(p)
    \/ loadMemoryLLMFailed(p)
    \/ Return(p)

\* one step of caller p, its inputs drawn from the given sets
Step(p, contents, appends, docIds, queries, maxResultsValues, minScores) ==
    \/ \E content \in contents, append \in appends, docId \in docIds :
           saveMemoryBegin(p, content, append, docId)
    \/ saveMemoryEmbeddingFailed(p)
    \/ \E model \in EmbeddingModels : saveMemoryEmbedded(p, model)
    \/ saveMemoryWritten(p)
    \/ saveMemoryWriteFailed(p)
    \/ clearMemory(p)
    \/ clearMemoryFailed(p)
    \/ LoadStep(p, queries, maxResultsValues, minScores)

InitialFiles == {BrokenFile("missing"), BrokenFile("badjson"), BrokenFile("nochunks")}

Init ==
    /\ file \in InitialFiles
    /\ call = [p \in Procs |-> IdleCall]
    /\ nextId = 1
    /\ clock = 1
    /\ calls = 0
    /\ input = <<>>
    /\ output = <<>>

Next == Step(1, Contents, BOOLEAN, DocIds, Queries, MaxResultsValues, MinScores)

Spec == Init /\ [][Next]_vars

----------------------------------------------------------------------------
(* Properties of saveMemory, one call at a time                            *)

LoadDone(p) == call[p].pc = "done" /\ call[p].op = "load"

SaveDone(p) == call[p].pc = "done" /\ call[p].op = "save"

NewChunksOf(rec) == splitIntoChunks(rec.content, CHUNK_SIZE, CHUNK_OVERLAP)

\* isDuplicate of the i-th new chunk of a finished save against the chunks
\* its readFile found
DuplicateOfLoaded(rec, i) ==
    isDuplicate([content |-> NewChunksOf(rec)[i],
                 contentHash |-> generateContentHash(NewChunksOf(rec)[i]),
                 embedding |-> rec.embeddings[i]], rec.loaded, rec.docId)

\* C1: after a successful saveMemory with append=false and a docId D, no
\* chunk the store held before with docId D is left and every chunk it held
\* with another or no docId is still there; without a docId the store holds
\* only chunks the call created.
C1_ReplaceScope ==
    \A p \in Procs :
        (SaveDone(p) /\ call[p].res.success /\ ~call[p].append) =>
            IF Truthy(call[p].docId)
            THEN /\ \A c \in ChunkSet(call[p].loaded) :
                        c.docId = call[p].docId => c \notin ChunkSet(file.chunks)
                 /\ \A c \in ChunkSet(call[p].loaded) :
                        c.docId # call[p].docId => c \in ChunkSet(file.chunks)
            ELSE \A c \in ChunkSet(file.chunks) :
                     /\ c.id \notin ChunkIds(call[p].loaded)
                     /\ c.content \in ChunkSet(NewChunksOf(call[p]))

C1_Witness ==
    \E p \in Procs :
        /\ SaveDone(p) /\ call[p].res.success /\ ~call[p].append
        /\ call[p].docId = "d1"
        /\ \E c \in ChunkSet(call[p].loaded) : c.docId = "d1"
        /\ \E c \in ChunkSet(call[p].loaded) : c.docId # "d1"
        /\ call[p].res.saved > 0

\* C2: a saveMemory with append=true leaves every chunk the store held in
\* place, unaltered and in the same order, and a successful one puts the
\* chunks it creates after them.
C2_AppendKeeps ==
    \A p \in Procs :
        (SaveDone(p) /\ call[p].append) =>
            LET before == call[p].loaded
                after == loadMemoryStore(file).chunks
            IN /\ Len(after) >= Len(before)
               /\ SubSeq(after, 1, Len(before)) = before
               /\ call[p].res.success =>
                      /\ Len(after) = Len(before) + call[p].res.saved
                      /\ \A i \in Len(before) + 1..Len(after) :
                             /\ after[i].id \notin ChunkIds(before)
                             /\ after[i].content \in ChunkSet(NewChunksOf(call[p]))
               /\ ~call[p].res.success => after = before

C2_Witness ==
    \E p \in Procs :
        /\ SaveDone(p) /\ call[p].append /\ call[p].res.success
        /\ Len(call[p].loaded) >= 2
        /\ call[p].res.saved >= 2

\* C3: an append save whose content splits into n >= 1 chunks, d of them
\* duplicates of chunks already in the store, succeeds unless the provider
\* or the disk fails; the store grows by n - d chunks and d are reported
\* skipped.
C3_AppendDedupCount ==
    \A p \in Procs :
        LET rec == call[p]
            n == Len(NewChunksOf(rec))
            d == Cardinality({i \in 1..n : DuplicateOfLoaded(rec, i) = "dup"})
        IN (/\ SaveDone(p) /\ rec.append
            /\ n >= 1
            /\ Len(rec.embeddings) = n
            /\ \A i \in 1..n : DuplicateOfLoaded(rec, i) # "throw"
            /\ rec.res.error # "write failed") =>
               /\ rec.res.success
               /\ rec.res.skipped = d
               /\ rec.res.saved = n - d
               /\ Len(file.chunks) = Len(rec.loaded) + n - d

C3_Witness ==
    \E p \in Procs :
        /\ SaveDone(p) /\ call[p].append /\ call[p].res.success
        /\ Len(NewChunksOf(call[p])) = 2
        /\ call[p].res.skipped = 1
        /\ Len(file.chunks) = Len(call[p].loaded) + 1

\* C4: a saveMemory that fails before its write (no content to save, the
\* embedding call failing, a vector-length error while deduplicating) leaves
\* the persisted document as it was.
C4_FailedSaveKeepsFile ==
    \A p \in Procs :
        (/\ SaveDone(p) /\ ~call[p].res.success
         /\ call[p].res.error \in {"No content to save", "Failed to generate embeddings",
                                   "Vectors must have the same length"}) =>
            file = call[p].pre

C4_Witness ==
    \E p \in Procs :
        /\ SaveDone(p) /\ ~call[p].res.success /\ ~call[p].append
        /\ call[p].res.error = "Failed to generate embeddings"
        /\ KeptOnSave(call[p].loaded, FALSE, call[p].docId) # call[p].loaded
        /\ file = call[p].pre

\* chunks is the document a successful saveMemory(content, append = false,
\* no docId) leaves: the chunks of content and nothing else
SavedAlone(chunks, content) ==
    LET textChunks == splitIntoChunks(content, CHUNK_SIZE, CHUNK_OVERLAP)
    IN /\ textChunks # <<>>
       /\ Len(chunks) = Len(textChunks)
       /\ \A i \in 1..Len(chunks) :
              /\ chunks[i].content = textChunks[i]
              /\ chunks[i].docId = None
              /\ chunks[i].chunkIndex = i - 1
              /\ chunks[i].chunkCount = Len(textChunks)
              /\ chunks[i].timestamp = chunks[1].timestamp

\* a load with a query and maxResults >= 1 whose query embedding arrived,
\* with the dimension of the embeddings of the store
AnsweredLoad(p) ==
    /\ LoadDone(p) /\ QueryGiven(call[p].query) /\ call[p].maxResults >= 1
    /\ ~call[p].embedFailed
    /\ call[p].embeddings # <<>>
    /\ \A i \in 1..Len(call[p].loaded) :
           Len(call[p].loaded[i].embedding) = Len(call[p].embeddings[1])

\* C13: a loadMemory with a query and maxResults >= 1 that follows a
\* successful saveMemory of non-blank content (append = false, no docId),
\* the provider answering, returns success=true and at least one relevant
\* chunk whose content is a chunk of the saved content, whether or not any
\* chunk is similar to the query.
C13_RoundTrip ==
    \A p \in Procs : \A content \in Contents :
        (AnsweredLoad(p) /\ SavedAlone(call[p].loaded, content)) =>
            /\ call[p].res.success
            /\ call[p].res.relevantChunks # <<>>
            /\ \A i \in 1..Len(call[p].res.relevantChunks) :
                   \E j \in 1..Len(call[p].loaded) :
                       /\ call[p].res.relevantChunks[i] = call[p].loaded[j]
                       /\ call[p].loaded[j].content
                              = splitIntoChunks(content, CHUNK_SIZE, CHUNK_OVERLAP)[j]

\* a save of two chunks, then a load whose query is similar to neither
C13_Witness ==
    \E p \in Procs :
        /\ AnsweredLoad(p)
        /\ SavedAlone(call[p].loaded, <<"a", "b", "\n", "\n", "c", "d">>)
        /\ call[p].candidates = <<>>
        /\ call[p].res.success
        /\ call[p].res.relevantChunks # <<>>

\* C17: after every successful saveMemory or clearMemory the totalChunks of
\* the document is the number of its chunks, which is what getMemoryStats
\* reports.
C17_TotalChunks ==
    \A p \in Procs :
        (call[p].pc = "done" /\ call[p].op \in {"save", "clear"} /\ call[p].res.success) =>
            /\ file.kind = "store"
            /\ file.totalChunks = Len(file.chunks)
            /\ getMemoryStats(file).totalChunks = Len(loadMemoryStore(file).chunks)

\* an append save that added to a document which held a chunk
C17_Witness ==
    \E p \in Procs :
        /\ SaveDone(p) /\ call[p].res.success /\ call[p].append
        /\ call[p].loaded # <<>>
        /\ call[p].res.saved > 0
        /\ getMemoryStats(file).totalChunks = Len(call[p].loaded) + call[p].res.saved

\* C22: a saveMemory, append or not, on a document that exists and is
\* structurally invalid (no JSON, or JSON without a chunks array) fails only
\* for lack of content or when the provider or the disk fails; when it
\* succeeds the document is a store of exactly the chunks of the call, and
\* no error is reported for the document it replaced.
C22_InvalidReplaced ==
    \A p \in Procs :
        (SaveDone(p) /\ call[p].pre.kind \in {"badjson", "nochunks"}) =>
            /\ (/\ NewChunksOf(call[p]) # <<>>
                /\ ~call[p].embedFailed
                /\ call[p].res.error # "write failed") => call[p].res.success
            /\ call[p].res.success =>
                   /\ call[p].res.error = ""
                   /\ file.kind = "store"
                   /\ file.totalChunks = Len(NewChunksOf(call[p]))
                   /\ Len(file.chunks) = Len(NewChunksOf(call[p]))
                   /\ \A i \in 1..Len(file.chunks) :
                          file.chunks[i].content = NewChunksOf(call[p])[i]

\* an append save of two chunks on JSON without a chunks array
C22_Witness ==
    \E p \in Procs :
        /\ SaveDone(p) /\ call[p].append /\ call[p].res.success
        /\ call[p].pre.kind = "nochunks"
        /\ file.kind = "store"
        /\ Len(file.chunks) = 2

\* C24: a successful clearMemory leaves a store of zero chunks with
\* totalChunks 0 whatever the document was; the cleared store changes only
\* by a successful save, and every load that reads it reports that memory
\* is empty.
C24_Cleared ==
    [][ /\ \A p \in Procs :
               (call'[p].pc = "done" /\ call'[p].op = "clear" /\ call'[p].res.success
                   /\ call[p].pc # "done")
                   => file' = StoreFile(<<>>, 0)
        /\ (file = StoreFile(<<>>, 0) /\ file' # file) =>
               \E p \in Procs :
                   /\ call'[p].pc = "done" /\ call'[p].op = "save" /\ call'[p].res.success
                   /\ call[p].pc = "writing"
        /\ \A p \in Procs :
               (call'[p].pc = "done" /\ call'[p].op = "load"
                   /\ call'[p].pre = StoreFile(<<>>, 0)) =>
                   /\ call'[p].res.success
                   /\ call'[p].res.kind = "empty"
                   /\ call'[p].res.relevantChunks = <<>>
                   /\ call'[p].embedCalls = 0 ]_vars

\* chunks were saved, cleared, and a load with a query reports empty memory
C24_Witness ==
    \E p \in Procs :
        /\ LoadDone(p) /\ QueryGiven(call[p].query)
        /\ call[p].pre = StoreFile(<<>>, 0)
        /\ nextId > 1
        /\ call[p].res.kind = "empty"

----------------------------------------------------------------------------
(* Specification: one caller saving documents that repeat a paragraph      *)

RepeatContents ==
    { <<"a", "b", "\n", "\n", "a", "b", "\n", "\n", "a", "b">>, <<"c", "d">> }

SpecRepeat ==
    Init /\ [][Step(1, RepeatContents, BOOLEAN, {None, "d1"}, {<<"a", "b">>},
                    MaxResultsValues, MinScores)]_vars

\* C26: in every store reached by successful saves from an empty store, no
\* two chunks of the same deduplication scope (equal docId, or one of the
\* two without docId) have the same contentHash.
C26_NoEqualHashInScope ==
    LET chunks == loadMemoryStore(file).chunks
    IN \A i, j \in 1..Len(chunks) :
           (/\ i < j
            /\ \/ chunks[i].docId = chunks[j].docId
               \/ ~Truthy(chunks[i].docId)
               \/ ~Truthy(chunks[j].docId))
           => chunks[i].contentHash # chunks[j].contentHash

----------------------------------------------------------------------------
(* Specification: two callers whose calls overlap, every save appending    *)

OverlapContents == { <<"A", "B", " ">>, <<"c", "d">> }
OverlapDocIds == {None}
OverlapQueries == {<<"a", "b">>}

NextOverlap ==
    \E p \in Procs :
        Step(p, OverlapContents, {TRUE}, OverlapDocIds, OverlapQueries,
             MaxResultsValues, MinScores)

SpecOverlap == Init /\ [][NextOverlap]_vars

\* C5: nothing serializes two saves: a save that read the document before
\* another save wrote it writes its own snapshot plus its own chunks, so
\* the chunks the other save added are not in the document afterwards,
\* though both saves return success.
C5_LostUpdate ==
    \A p \in Procs :
        (SaveDone(p) /\ call[p].res.success) =>
            /\ \A c \in ChunkSet(file.chunks) : c.id \notin call[p].missed
            /\ Len(file.chunks) = Len(call[p].loaded) + call[p].res.saved

C5_Witness ==
    \E p \in Procs :
        /\ SaveDone(p) /\ call[p].append /\ call[p].res.success
        /\ call[p].res.saved > 0
        /\ call[p].missed # {}
        /\ \A c \in ChunkSet(file.chunks) : c.id \notin call[p].missed

\* the ids a save has given to its new chunks in this step
AssignedIds(p) ==
    IF call[p].pc = "embedding" /\ call'[p].pc = "writing"
    THEN ChunkIds(call'[p].store) \ ChunkIds(call[p].store)
    ELSE {}

\* C16: under every sequence and interleaving of saves and clears from an
\* empty store, the chunks of the document have pairwise distinct ids, and
\* an id given to a chunk is given to no later chunk: nextId, the ids given
\* so far, never decreases and every id a save gives is at or above it and
\* below its next value.
C16_DistinctIds ==
    [][ /\ Cardinality(ChunkIds(file'.chunks)) = Len(file'.chunks)
        /\ nextId' >= nextId
        /\ \A id \in ChunkIds(file'.chunks) : id < nextId'
        /\ \A p \in Procs :
               /\ Cardinality(AssignedIds(p)) = Len(call'[p].store) - Len(call[p].store)
                      \/ AssignedIds(p) = {}
               /\ \A id \in AssignedIds(p) : nextId <= id /\ id < nextId' ]_vars

\* two chunks written by different saves after the chunk that got the first
\* id was lost
C16_Witness ==
    /\ Len(file.chunks) = 2
    /\ Cardinality(ChunkIds(file.chunks)) = 2
    /\ 1 \notin ChunkIds(file.chunks)
    /\ nextId = 4

\* C6: saveMemory, loadMemory and clearMemory never raise: every call ends
\* with a result, either success with content or failure with an error text.
C6_NeverRaises ==
    \A p \in Procs :
        call[p].pc = "done" =>
            /\ ~call[p].raised
            /\ call[p].res.kind # "pending"
            /\ call[p].res.success => call[p].res.kind # "error" /\ call[p].res.error = ""
            /\ ~call[p].res.success => call[p].res.kind = "error" /\ call[p].res.error # ""

C6_Witness ==
    \E p \in Procs :
        /\ call[p].pc = "done" /\ call[p].op = "load"
        /\ call[p].embedFailed
        /\ ~call[p].res.success /\ call[p].res.error # ""

----------------------------------------------------------------------------
(* Specification: loadMemory on the documents a history of saves can leave *)

\* the saves of the history: single-chunk contents with their docIds, each
\* embedded by the three-dimensional model
SeedSaves ==
    << [content |-> <<"a", "b">>, docId |-> "d1"],
       [content |-> <<"a", "c">>, docId |-> "d1"],
       [content |-> <<"d", "c">>, docId |-> "d1"],
       [content |-> <<"b", "d">>, docId |-> "d1"],
       [content |-> <<"b", "a">>, docId |-> None],
       [content |-> <<"d", "b">>, docId |-> "d2"],
       [content |-> <<"z", "z">>, docId |-> ""] >>

\* the chunks after the append saves of SeedSaves whose index is in picked,
\* run in order by saveMemory's own loop; two successive saves share a
\* timestamp
RECURSIVE SeedStore(_, _)
SeedStore(picked, upTo) ==
    IF upTo = 0 THEN <<>>
    ELSE LET store == SeedStore(picked, upTo - 1)
             textChunks == splitIntoChunks(SeedSaves[upTo].content, CHUNK_SIZE, CHUNK_OVERLAP)
         IN IF upTo \notin picked THEN store
            ELSE store \o DedupLoop(textChunks, generateEmbeddings(textChunks, "dim3"), 1,
                                    store, SeedSaves[upTo].docId, (upTo + 1) \div 2,
                                    10 * upTo,
                                    [throws |-> FALSE, newChunks |-> <<>>,
                                     duplicatesSkipped |-> 0]).newChunks

\* the chunks after n append saves of one text under n different docIds,
\* two successive saves sharing a timestamp
RECURSIVE LargeStore(_)
LargeStore(n) ==
    IF n = 0 THEN <<>>
    ELSE LET store == LargeStore(n - 1)
             textChunks == << <<"a", "b">> >>
             docId == <<"e1", "e2", "e3", "e4", "e5", "e6", "e7", "e8", "e9", "e10", "e11">>[n]
         IN store \o DedupLoop(textChunks, generateEmbeddings(textChunks, "dim3"), 1,
                                store, docId, (n + 1) \div 2, 200 + n,
                                [throws |-> FALSE, newChunks |-> <<>>,
                                 duplicatesSkipped |-> 0]).newChunks

SeedFiles ==
    {BrokenFile(kind) : kind \in BrokenKinds}
        \cup {saveMemoryStore([chunks |-> SeedStore(picked, Len(SeedSaves))]) :
                  picked \in SUBSET (1..Len(SeedSaves))}
        \cup {saveMemoryStore([chunks |-> LargeStore(RECENT_LIMIT + 1)])}

LoadQueries == {NoQuery, <<>>, <<"a", "b">>, <<"b", "a">>, <<"z", "z">>}
LoadMaxResultsValues == {0, 1, 4}
LoadMinScores == {10, 30, 95}

\* lines 545-569: getMemoryStats reads the store and returns its counts
getMemoryStatsReturned(p) ==
    /\ MayBegin(p)
    /\ call' = [call EXCEPT ![p] =
           Finish([IdleCall EXCEPT !.op = "stats", !.pre = file],
                  [Success("stats", <<>>) EXCEPT !.stats = getMemoryStats(file)])]
    /\ calls' = calls + 1
    /\ UNCHANGED <<file, nextId, clock, input, output>>

InitLoad ==
    /\ file \in SeedFiles
    /\ call = [p \in Procs |-> IdleCall]
    /\ nextId = 100
    /\ clock = 10
    /\ calls = 0
    /\ input = <<>>
    /\ output = <<>>

NextLoad ==
    \/ LoadStep(1, LoadQueries, LoadMaxResultsValues, LoadMinScores)
    \/ getMemoryStatsReturned(1)

SpecLoad == InitLoad /\ [][NextLoad]_vars

\* what a load returns as relevantChunks when synthesis is not requested
WithoutSynthesis(rec) ==
    IF rec.candidates = <<>> THEN FallbackChunks(rec.loaded, rec.maxResults)
    ELSE SelectByTier(rec.candidates, rec.maxResults, rec.minScore).relevantChunks

\* C7: in a loadMemory with a query on a non-empty store, a failing query
\* embedding gives success=false with an error; a failing LLM synthesis, on
\* the candidate path and on the fallback path, still gives success=true
\* with the raw context and the relevantChunks of a load without synthesis.
C7_LoadFailures ==
    \A p \in Procs :
        (LoadDone(p) /\ QueryGiven(call[p].query) /\ call[p].loaded # <<>>) =>
            /\ call[p].embedFailed =>
                   ~call[p].res.success /\ call[p].res.error # ""
            /\ call[p].llmFailed =>
                   /\ call[p].res.success
                   /\ call[p].res.kind \in {"contextWithLevel", "fallbackNotice"}
                   /\ call[p].res.relevantChunks = WithoutSynthesis(call[p])
                   /\ call[p].res.relevantChunks # <<>>

C7_Witness ==
    \E p \in Procs :
        /\ LoadDone(p) /\ QueryGiven(call[p].query) /\ call[p].loaded # <<>>
        /\ call[p].llmFailed /\ call[p].res.success
        /\ call[p].candidates = <<>>
        /\ Len(call[p].res.relevantChunks) = 4

\* C8: loadMemory on a missing or unreadable file, on a file that is not
\* JSON or has no chunks array, or on a store of zero chunks returns
\* success=true with the "empty" content and no relevantChunks, and calls
\* neither the embedding provider nor the LLM, with or without a query.
C8_EmptyLoad ==
    \A p \in Procs :
        (LoadDone(p) /\ (call[p].pre.kind \in BrokenKinds \/ call[p].pre.chunks = <<>>)) =>
            /\ call[p].res.success
            /\ call[p].res.kind = "empty"
            /\ call[p].res.relevantChunks = <<>>
            /\ call[p].embedCalls = 0
            /\ call[p].llmCalls = 0

C8_Witness ==
    \E p \in Procs :
        /\ LoadDone(p) /\ call[p].pre.kind = "badjson"
        /\ QueryGiven(call[p].query) /\ call[p].useRAG
        /\ call[p].res.kind = "empty"

\* the tier loadMemory takes its result from: the first non-empty one
ChosenTier(rec) ==
    LET tiers == categorizeByRelevance(rec.candidates, rec.minScore)
    IN IF Len(tiers.highlyRelevant) > 0
       THEN [level |-> "highly relevant", items |-> tiers.highlyRelevant]
       ELSE IF Len(tiers.moderatelyRelevant) > 0
       THEN [level |-> "moderately relevant", items |-> tiers.moderatelyRelevant]
       ELSE [level |-> "potentially related", items |-> tiers.somewhatRelevant]

\* the number of chunks the per-document cap leaves of a list of candidates
CappedSize(items) ==
    LET idx == 1..Len(items)
        OfDoc(d) == {i \in idx : items[i].content.docId = d}
        docs == {items[i].content.docId : i \in {j \in idx : Truthy(items[j].content.docId)}}
    IN Cardinality({i \in idx : ~Truthy(items[i].content.docId)})
       + Cardinality({<<d, k>> \in docs \X (1..MAX_PER_DOC) : k <= Cardinality(OfDoc(d))})

\* C9: with at least one candidate the result is taken from exactly one
\* tier, the first non-empty of highly, moderately and somewhat relevant:
\* every chunk returned is of that tier, no docId occurs more than three
\* times, at most maxResults chunks are returned, and fewer are returned
\* rather than filled up from a lower tier.
C9_OneTier ==
    \A p \in Procs :
        (LoadDone(p) /\ call[p].res.success /\ call[p].candidates # <<>>) =>
            LET rec == call[p]
                rel == rec.res.relevantChunks
                tier == ChosenTier(rec)
            IN /\ rec.res.level = tier.level
               /\ \A i \in 1..Len(rel) :
                      \E j \in 1..Len(tier.items) : tier.items[j].content = rel[i]
               /\ \A i, j \in 1..Len(rel) : rel[i] = rel[j] => i = j
               /\ \A i \in 1..Len(rel) :
                      Truthy(rel[i].docId) =>
                          Cardinality({j \in 1..Len(rel) : rel[j].docId = rel[i].docId})
                              <= MAX_PER_DOC
               /\ Len(rel) <= rec.maxResults
               /\ Len(rel) = Min(rec.maxResults, CappedSize(tier.items))

C9_Witness ==
    \E p \in Procs :
        /\ LoadDone(p) /\ call[p].res.success /\ call[p].candidates # <<>>
        /\ call[p].res.level = "highly relevant"
        /\ Len(ChosenTier(call[p]).items) = 4
        /\ Len(call[p].res.relevantChunks) = 3
        /\ call[p].maxResults = 4
        /\ Len(categorizeByRelevance(call[p].candidates, call[p].minScore).moderatelyRelevant) > 0

\* a load without a query of a store that holds chunks
RecentLoad(p) == LoadDone(p) /\ ~QueryGiven(call[p].query) /\ call[p].loaded # <<>>

\* relevantChunks are chunks of the store, each once, ordered by timestamp
\* descending, and no chunk left out is more recent than a chunk returned
MostRecentOf(relevantChunks, loaded) ==
    /\ ChunkSet(relevantChunks) \subseteq ChunkSet(loaded)
    /\ Cardinality(ChunkSet(relevantChunks)) = Len(relevantChunks)
    /\ \A i, j \in 1..Len(relevantChunks) :
           i < j => relevantChunks[i].timestamp >= relevantChunks[j].timestamp
    /\ \A kept \in ChunkSet(relevantChunks) :
           \A dropped \in ChunkSet(loaded) \ ChunkSet(relevantChunks) :
               kept.timestamp >= dropped.timestamp

\* C12 as stated: a load without a query of a non-empty store succeeds with
\* the most recent chunks by timestamp descending, min(2 * maxResults, store
\* size) of them, and calls neither the embedding provider nor the LLM.
C12_TwiceMaxResults ==
    \A p \in Procs :
        RecentLoad(p) =>
            /\ call[p].res.success
            /\ MostRecentOf(call[p].res.relevantChunks, call[p].loaded)
            /\ Len(call[p].res.relevantChunks) = Min(2 * call[p].maxResults, Len(call[p].loaded))
            /\ call[p].embedCalls = 0 /\ call[p].llmCalls = 0

\* C12 (amended): a load without a query of a non-empty store succeeds with
\* the most recent chunks by timestamp descending, min(10, store size) of
\* them whatever maxResults is, and calls neither the embedding provider nor
\* the LLM.
C12_RecentChunks ==
    \A p \in Procs :
        RecentLoad(p) =>
            /\ call[p].res.success
            /\ MostRecentOf(call[p].res.relevantChunks, call[p].loaded)
            /\ Len(call[p].res.relevantChunks) = Min(10, Len(call[p].loaded))
            /\ call[p].embedCalls = 0 /\ call[p].llmCalls = 0

\* eleven chunks in the store, maxResults = 1, ten chunks returned
C12_Witness ==
    \E p \in Procs :
        /\ RecentLoad(p)
        /\ Len(call[p].loaded) = 11
        /\ call[p].maxResults = 1
        /\ Len(call[p].res.relevantChunks) = 10
        /\ call[p].res.relevantChunks[1].timestamp > call[p].res.relevantChunks[10].timestamp

\* a load with a query of a store that holds chunks, whose query embedding
\* arrived and is similar (cosine >= 0.05) to the embedding of no chunk
NoCandidateLoad(p) ==
    /\ LoadDone(p) /\ QueryGiven(call[p].query) /\ call[p].loaded # <<>>
    /\ call[p].embeddings # <<>>
    /\ \A i \in 1..Len(call[p].loaded) :
           /\ Len(call[p].loaded[i].embedding) = Len(call[p].embeddings[1])
           /\ 100 * cosineSimilarity(call[p].embeddings[1], call[p].loaded[i].embedding)
                  < 5 * ScoreScale

\* C23: a load with a query of a non-empty store whose search finds no
\* candidate of score >= 0.05 returns success=true with the
\* min(maxResults, store size) most recent chunks; when synthesis is not
\* requested or fails the content is the notice followed by that context,
\* and when it answers the content is the answer.
C23_Fallback ==
    \A p \in Procs :
        NoCandidateLoad(p) =>
            /\ call[p].res.success
            /\ MostRecentOf(call[p].res.relevantChunks, call[p].loaded)
            /\ Len(call[p].res.relevantChunks) = Min(call[p].maxResults, Len(call[p].loaded))
            /\ (~call[p].useRAG \/ call[p].llmFailed) => call[p].res.kind = "fallbackNotice"
            /\ call[p].res.kind \in {"fallbackNotice", "generated"}
            /\ call[p].res.kind = "generated" => call[p].useRAG /\ call[p].llmCalls = 1

\* eleven chunks, none similar to the query, the four most recent returned
\* without synthesis
C23_Witness ==
    \E p \in Procs :
        /\ NoCandidateLoad(p)
        /\ ~call[p].useRAG
        /\ Len(call[p].loaded) = 11
        /\ call[p].maxResults = 4
        /\ Len(call[p].res.relevantChunks) = 4
        /\ call[p].res.relevantChunks[1].timestamp > call[p].loaded[1].timestamp

\* C25: when the search finds at least one candidate and maxResults >= 1,
\* then for every minScore the load succeeds, the tier it chooses is not
\* empty, it returns at least one chunk, and the first chunk returned is a
\* candidate of the highest score.
C25_TopCandidateFirst ==
    \A p \in Procs :
        (LoadDone(p) /\ call[p].candidates # <<>> /\ call[p].maxResults >= 1) =>
            LET rec == call[p]
                rel == rec.res.relevantChunks
            IN /\ rec.res.success
               /\ ChosenTier(rec).items # <<>>
               /\ rel # <<>>
               /\ \E j \in 1..Len(rec.candidates) :
                      /\ rec.candidates[j].content = rel[1]
                      /\ \A k \in 1..Len(rec.candidates) :
                             rec.candidates[k].score <= rec.candidates[j].score

\* no candidate reaches minScore 0.95: the tier chosen is the middle one,
\* and the best of its several candidates is the one chunk returned
C25_Witness ==
    \E p \in Procs :
        /\ LoadDone(p) /\ call[p].candidates # <<>> /\ call[p].maxResults = 1
        /\ call[p].minScore = 95
        /\ ChosenTier(call[p]).level = "moderately relevant"
        /\ Len(ChosenTier(call[p]).items) >= 2
        /\ Len(call[p].res.relevantChunks) = 1

\* C29: loadMemory, on every path, and getMemoryStats never write the store:
\* when the call has returned, the persisted document, the order of its
\* chunks included, is the one the call found.
C29_ReadOnly ==
    \A p \in Procs :
        (call[p].pc = "done" /\ call[p].op \in {"load", "stats"}) => file = call[p].pre

\* the no-candidate fallback has sorted its copy of the chunks, newest
\* first, and the document still has them oldest first
C29_Witness ==
    \E p \in Procs :
        /\ LoadDone(p) /\ call[p].res.kind = "fallbackNotice"
        /\ Len(call[p].res.relevantChunks) >= 2
        /\ file.kind = "store" /\ Len(file.chunks) >= 2
        /\ file.chunks[1].timestamp < file.chunks[2].timestamp
        /\ call[p].res.relevantChunks[1] # file.chunks[1]

\* C28: for every topK >= 0, 0 included, findSimilarEmbeddings returns without
\* raising exactly min(topK, number of candidates that reach the threshold)
\* items, each of a score that reaches the threshold; stated of the search
\* of a load, whose topK is min(4 * maxResults, 20) and threshold 0.05.
C28_AnyTopK ==
    \A p \in Procs :
        (/\ LoadDone(p) /\ QueryGiven(call[p].query) /\ call[p].embeddings # <<>>
         /\ \A i \in 1..Len(call[p].loaded) :
                Len(call[p].loaded[i].embedding) = Len(call[p].embeddings[1])) =>
            LET rec == call[p]
                topK == Min(rec.maxResults * CANDIDATE_FACTOR, CANDIDATE_LIMIT)
                reaching == {i \in 1..Len(rec.loaded) :
                                AtLeastPct(cosineSimilarity(rec.embeddings[1],
                                                            rec.loaded[i].embedding),
                                           SEARCH_THRESHOLD)}
            IN /\ rec.res.error # "search failed"
               /\ Len(rec.candidates) = Min(topK, Cardinality(reaching))
               /\ \A i \in 1..Len(rec.candidates) :
                      AtLeastPct(rec.candidates[i].score, SEARCH_THRESHOLD)

----------------------------------------------------------------------------
(* Specification: applySemanticFirewall on every short list of candidates  *)

FirewallDocIds == {None, "", "d1", "d2"}
FirewallScores == {16, 36}

\* scored chunks in any order; the chunk at position i has id i
FirewallInput(f) ==
    [i \in DOMAIN f |-> [content |-> [id |-> i, docId |-> f[i][1]], score |-> f[i][2]]]

InitFirewall ==
    /\ file = BrokenFile("missing")
    /\ call = [p \in Procs |-> IdleCall]
    /\ nextId = 1
    /\ clock = 1
    /\ calls = 0
    /\ \E n \in 0..MaxFirewallLen :
           \E f \in [1..n -> FirewallDocIds \X FirewallScores] : input = FirewallInput(f)
    /\ output = <<>>

\* the firewall is applied to the input; output holds its result
ApplyFirewall ==
    /\ output = <<>>
    /\ output' = <<applySemanticFirewall(input)>>
    /\ UNCHANGED <<file, call, nextId, clock, calls, input>>

NextFirewall == ApplyFirewall

SpecFirewall == InitFirewall /\ [][NextFirewall]_vars

ItemSet(items) == {items[i] : i \in 1..Len(items)}
ItemsOfDoc(items, d) == {c \in ItemSet(items) : c.content.docId = d}

\* C10: applySemanticFirewall returns chunks of its input, each once; a
\* docId occurs at most three times, the chunks kept of a docId being its
\* highest-scoring ones; every chunk without a docId is kept; the result is
\* ordered by score descending.
C10_Firewall ==
    output # <<>> =>
        LET out == output[1]
        IN /\ ItemSet(out) \subseteq ItemSet(input)
           /\ Cardinality(ItemSet(out)) = Len(out)
           /\ \A d \in FirewallDocIds :
                  Truthy(d) =>
                      /\ Cardinality(ItemsOfDoc(out, d))
                             = Min(MAX_PER_DOC, Cardinality(ItemsOfDoc(input, d)))
                      /\ \A kept \in ItemsOfDoc(out, d) :
                             \A dropped \in ItemsOfDoc(input, d) \ ItemsOfDoc(out, d) :
                                 kept.score >= dropped.score
           /\ \A c \in ItemSet(input) : ~Truthy(c.content.docId) => c \in ItemSet(out)
           /\ \A i, j \in 1..Len(out) : i < j => out[i].score >= out[j].score

C10_Witness ==
    /\ output # <<>>
    /\ Len(input) = 5
    /\ Cardinality(ItemsOfDoc(input, "d1")) = 4
    /\ Cardinality(ItemsOfDoc(input, None)) = 1
    /\ input[1].score < input[4].score
    /\ \E c \in ItemsOfDoc(input, None) :
           /\ c \in ItemSet(output[1])
           /\ \A k \in ItemsOfDoc(input, "d1") : c.score <= k.score
    /\ Len(output[1]) = 4
    /\ input[1] \notin ItemSet(output[1])

----------------------------------------------------------------------------
(* Specification: top-K selection on every short list of distinct scores   *)

\* the item at position i has id i and score f[i]
TopKInput(f) == [i \in DOMAIN f |-> [content |-> i, score |-> f[i]]]

InitTopK ==
    /\ file = BrokenFile("missing")
    /\ call = [p \in Procs |-> IdleCall]
    /\ nextId = 1
    /\ clock = 1
    /\ calls = 0
    /\ \E n \in 0..MaxHeapItems : \E topK \in 1..MaxTopK : \E threshold \in {1, 3} :
           \E f \in [1..n -> 1..MaxHeapItems] :
               /\ \A i, j \in 1..n : i # j => f[i] # f[j]
               /\ input = [items |-> TopKInput(f), topK |-> topK, threshold |-> threshold]
    /\ output = <<>>

\* both selections are applied to the input
ApplyTopK ==
    /\ output = <<>>
    /\ output' = <<HeapSelect(input.items, input.topK, input.threshold),
                   SortSelect(input.items, input.topK, input.threshold)>>
    /\ UNCHANGED <<file, call, nextId, clock, calls, input>>

SpecTopK == InitTopK /\ [][ApplyTopK]_vars

Passing(items, threshold) == {c \in ItemSet(items) : c.score >= threshold}

\* C11: on a list of pairwise distinct scores and topK >= 1, the min-heap
\* selection returns the topK highest-scoring items at or above the
\* threshold (all of them when there are fewer), in descending order of
\* score, which is what filter, full sort and truncation return.
C11_TopK ==
    output # <<>> =>
        LET out == output[1]
            passing == Passing(input.items, input.threshold)
        IN /\ out = output[2]
           /\ Len(out) = Min(input.topK, Cardinality(passing))
           /\ ItemSet(out) \subseteq passing
           /\ \A i, j \in 1..Len(out) : i < j => out[i].score > out[j].score
           /\ \A kept \in ItemSet(out) : \A dropped \in passing \ ItemSet(out) :
                  kept.score > dropped.score

\* five items, three kept, one below the threshold, and the lowest-scoring
\* item kept arrives last, after the heap has filled
C11_Witness ==
    /\ output # <<>>
    /\ Len(input.items) = 5
    /\ input.topK = 3
    /\ input.threshold = 3
    /\ Len(output[1]) = 3
    /\ output[1][3] = input.items[5]
    /\ input.items[1].score < 3

----------------------------------------------------------------------------
(* Specification: isDuplicate on every candidate and short list of chunks  *)

\* existing chunks: two content hashes, four embeddings (two of them
\* parallel, one of another length), docId absent, empty or one of two
ExistingChunk(e) == [contentHash |-> e[1], embedding |-> e[2], docId |-> e[3]]

InitDedup ==
    /\ file = BrokenFile("missing")
    /\ call = [p \in Procs |-> IdleCall]
    /\ nextId = 1
    /\ clock = 1
    /\ calls = 0
    /\ \E n \in 0..MaxExisting : \E embedding \in {<<1, 2, 2>>, <<3>>} : \E docId \in DocIds :
           \E f \in [1..n -> {"h1", "h2"}
                                \X {<<1, 2, 2>>, <<2, 4, 4>>, <<2, 1, 2>>, <<3>>}
                                \X DocIds] :
               input = [newChunk |-> [contentHash |-> "h1", embedding |-> embedding],
                        existingChunks |-> [i \in 1..n |-> ExistingChunk(f[i])],
                        docId |-> docId]
    /\ output = <<>>

ApplyDedup ==
    /\ output = <<>>
    /\ output' = <<isDuplicate(input.newChunk, input.existingChunks, input.docId)>>
    /\ UNCHANGED <<file, call, nextId, clock, calls, input>>

SpecDedup == InitDedup /\ [][ApplyDedup]_vars

\* the existing chunks the check compares with: all but those of another
\* document when the candidate and the chunk both carry a docId
InScope(existingChunks, docId) ==
    {existing \in ItemSet(existingChunks) :
         ~(Truthy(docId) /\ Truthy(existing.docId) /\ docId # existing.docId)}

SameHashOrNear(newChunk, existing) ==
    \/ existing.contentHash = newChunk.contentHash
    \/ /\ Len(existing.embedding) = Len(newChunk.embedding)
       /\ cosineSimilarity(newChunk.embedding, existing.embedding) * 100
              >= 95 * ScoreScale

----------------------------------------------------------------------------
(* Specification: categorizeByRelevance on every short list of scores      *)

\* scores on both sides of 0.05, of 0.15, and of 0.4 and 0.7 of the score 1
InitTiers ==
    /\ file = BrokenFile("missing")
    /\ call = [p \in Procs |-> IdleCall]
    /\ nextId = 1
    /\ clock = 1
    /\ calls = 0
    /\ \E n \in 0..MaxTierLen : \E minScore \in {10, 30, 80} :
           \E f \in [1..n -> {1, 2, 5, 6, 14, 15, 25, 26, 30, 36}] :
               input = [chunks |-> TopKInput(f), minScore |-> minScore]
    /\ output = <<>>

ApplyTiers ==
    /\ output = <<>>
    /\ output' = <<categorizeByRelevance(input.chunks, input.minScore)>>
    /\ UNCHANGED <<file, call, nextId, clock, calls, input>>

SpecTiers == InitTiers /\ [][ApplyTiers]_vars

\* C15: with M the highest score of the list, a chunk is highly relevant
\* iff score >= max(minScore, 0.7 M), moderately relevant iff
\* max(0.15, 0.4 M) <= score < max(minScore, 0.7 M), somewhat relevant iff
\* 0.05 <= score < max(0.15, 0.4 M); the tiers of the empty list are empty
\* and its maxScore is 0.  Scores and floors are compared times 1000.
C15_Tiers ==
    output # <<>> =>
        LET tiers == output[1]
            all == ItemSet(input.chunks)
            M == IF all = {} THEN 0
                 ELSE CHOOSE m \in {c.score : c \in all} : \A c \in all : c.score <= m
            highFloor == Max(input.minScore * 10 * ScoreScale, 700 * M)
            moderateFloor == Max(150 * ScoreScale, 400 * M)
            somewhatFloor == 50 * ScoreScale
        IN /\ tiers.maxScore = M
           /\ ItemSet(tiers.highlyRelevant) \cup ItemSet(tiers.moderatelyRelevant)
                  \cup ItemSet(tiers.somewhatRelevant) \subseteq all
           /\ \A c \in all :
                  /\ c \in ItemSet(tiers.highlyRelevant) <=> 1000 * c.score >= highFloor
                  /\ c \in ItemSet(tiers.moderatelyRelevant)
                         <=> (1000 * c.score >= moderateFloor /\ 1000 * c.score < highFloor)
                  /\ c \in ItemSet(tiers.somewhatRelevant)
                         <=> (1000 * c.score >= somewhatFloor /\ 1000 * c.score < moderateFloor)

\* a list with a chunk in each tier; the chunk of score 26/36 is above 0.7 M
\* and below minScore, hence moderately relevant
C15_Witness ==
    /\ output # <<>>
    /\ Len(input.chunks) = 3
    /\ input.minScore = 80
    /\ output[1].highlyRelevant # <<>>
    /\ output[1].moderatelyRelevant # <<>>
    /\ output[1].somewhatRelevant # <<>>
    /\ \E i \in 1..3 : /\ input.chunks[i].score = 26
                        /\ input.chunks[i] \in ItemSet(output[1].moderatelyRelevant)

\* C27: for every minScore and every candidate list whose scores are all at
\* least 0.05, each candidate is in exactly one of the three tiers.
C27_ExactlyOneTier ==
    (output # <<>> /\ \A c \in ItemSet(input.chunks) : AtLeastPct(c.score, 5)) =>
        \A c \in ItemSet(input.chunks) :
            Cardinality({t \in {"highlyRelevant", "moderatelyRelevant", "somewhatRelevant"} :
                            c \in ItemSet(output[1][t])}) = 1

----------------------------------------------------------------------------
(* Specification: TextChunker.splitIntoChunks on every short text          *)

\* new TextChunker(chunkSize, chunkOverlap).splitIntoChunks(text), for the
\* configured chunk size and for one two characters larger
InitChunker ==
    /\ file = BrokenFile("missing")
    /\ call = [p \in Procs |-> IdleCall]
    /\ nextId = 1
    /\ clock = 1
    /\ calls = 0
    /\ \E n \in 0..MaxTextLen : \E chunkSize \in {CHUNK_SIZE, CHUNK_SIZE + 2} :
           \E text \in [1..n -> {"a", " ", "\n", "."}] :
               input = [text |-> text, chunkSize |-> chunkSize, chunkOverlap |-> CHUNK_OVERLAP]
    /\ output = <<>>

ApplyChunker ==
    /\ output = <<>>
    /\ output' = <<splitIntoChunks(input.text, input.chunkSize, input.chunkOverlap)>>
    /\ UNCHANGED <<file, call, nextId, clock, calls, input>>

SpecChunker == InitChunker /\ [][ApplyChunker]_vars

\* the characters of a text that are no white space, in order
NonSpaceOf(text) == SelectSeq(text, LAMBDA c : ~IsSpace(c))

\* the non-blank paragraphs of a text, each trimmed
RECURSIVE TrimEach(_)
TrimEach(parts) ==
    IF parts = <<>> THEN <<>> ELSE <<Trim(Head(parts))>> \o TrimEach(Tail(parts))

\* C18 as stated: a text shorter than chunkSize gives no chunk when it is
\* empty or white space, and otherwise exactly one chunk, the trimmed text.
C18_ShortTextTrimmed ==
    (output # <<>> /\ Len(input.text) < input.chunkSize) =>
        output[1] = IF Trim(input.text) = <<>> THEN <<>> ELSE <<Trim(input.text)>>

\* C18 (amended): a text shorter than chunkSize gives no chunk when it is
\* empty or white space, and otherwise exactly one chunk: its non-blank
\* paragraphs, each trimmed, joined by "\n\n"; this chunk has the text's
\* characters other than white space, and is the trimmed text when the
\* trimmed text holds no line break.
C18_ShortText ==
    (output # <<>> /\ Len(input.text) < input.chunkSize) =>
        IF Trim(input.text) = <<>> THEN output[1] = <<>>
        ELSE /\ Len(output[1]) = 1
             /\ output[1][1] = JoinWith(TrimEach(SelectNonBlank(SplitParagraphs(input.text))),
                                        <<"\n", "\n">>)
             /\ NonSpaceOf(output[1][1]) = NonSpaceOf(input.text)
             /\ ~HasNewline(Trim(input.text)) => output[1][1] = Trim(input.text)

\* two paragraphs separated by a break that holds a space
C18_Witness ==
    /\ output # <<>>
    /\ input.chunkSize = 6
    /\ input.text = <<"a", "\n", " ", "\n", "a">>
    /\ output[1] = << <<"a", "\n", "\n", "a">> >>

\* C19: every chunk splitIntoChunks returns is non-empty after trimming and
\* at most chunkSize characters long.
C19_ChunkSize ==
    output # <<>> =>
        \A i \in 1..Len(output[1]) :
            /\ Trim(output[1][i]) # <<>>
            /\ Len(output[1][i]) <= input.chunkSize

\* C20: a non-empty text longer than chunkSize with no paragraph break and
\* no sentence boundary is cut into the slices of length chunkSize (the
\* last one possibly shorter) that start every chunkSize - chunkOverlap
\* characters, the blank slices left out.
C20_SlidingWindow ==
    (/\ output # <<>>
     /\ Len(input.text) > input.chunkSize
     /\ Len(SplitParagraphs(input.text)) = 1
     /\ Len(SplitSentences(input.text)) = 1) =>
        LET stride == input.chunkSize - input.chunkOverlap
            count == (Len(input.text) + stride - 1) \div stride
            slices == [k \in 1..count |->
                          SubSeq(input.text, (k - 1) * stride + 1,
                                 Min((k - 1) * stride + input.chunkSize, Len(input.text)))]
        IN output[1] = SelectNonBlank(slices)

----------------------------------------------------------------------------
(* Specification: the fallback loop of splitIntoChunks, one iteration a   *)
(* step, for every configuration with 0 <= chunkOverlap <= chunkSize       *)

\* the chunks array of the fallback loop is recorded up to this length, and
\* the number of its iterations as odd or even
MaxWindowChunks == MaxWindowText + 1

\* lines 20-55: the state in which the loops over the paragraphs and their
\* sentences, which end with the arrays they run over, leave the call
AfterParagraphs(text, chunks) ==
    IF Len(chunks) = 0 /\ Len(text) > 0
    THEN [pc |-> "window", i |-> 0, chunks |-> <<>>, iterations |-> 0]
    ELSE [pc |-> "filter", i |-> 0, chunks |-> chunks, iterations |-> 0]

InitWindow ==
    /\ file = BrokenFile("missing")
    /\ call = [p \in Procs |-> IdleCall]
    /\ nextId = 1
    /\ clock = 1
    /\ calls = 0
    /\ \E n \in 0..MaxWindowText : \E chunkSize \in 1..MaxWindowSize :
           \E chunkOverlap \in 0..chunkSize : \E text \in [1..n -> {"a", " "}] :
               /\ input = [text |-> text, chunkSize |-> chunkSize,
                           chunkOverlap |-> chunkOverlap]
               /\ output = AfterParagraphs(text,
                               ParagraphLoop(SelectNonBlank(SplitParagraphs(text)),
                                             <<<<>>, <<>>>>, chunkSize, chunkOverlap))

\* lines 57-61: one iteration of 'for (i = 0; i < text.length; i += chunkSize - chunkOverlap)'
splitIntoChunksWindow ==
    /\ output.pc = "window"
    /\ output.i < Len(input.text)
    /\ output' = [output EXCEPT
           !.i = @ + (input.chunkSize - input.chunkOverlap),
           !.iterations = (@ + 1) % 2,
           !.chunks = IF Len(@) < MaxWindowChunks
                      THEN Append(@, SubSeq(input.text, output.i + 1,
                                            Min(output.i + input.chunkSize, Len(input.text))))
                      ELSE @]
    /\ UNCHANGED <<file, call, nextId, clock, calls, input>>

\* line 57: the exit of the loop
splitIntoChunksWindowEnd ==
    /\ output.pc = "window"
    /\ ~(output.i < Len(input.text))
    /\ output' = [output EXCEPT !.pc = "filter"]
    /\ UNCHANGED <<file, call, nextId, clock, calls, input>>

\* line 63: the blank chunks are filtered out and the call returns
splitIntoChunksReturn ==
    /\ output.pc = "filter"
    /\ output' = [output EXCEPT !.pc = "done", !.chunks = SelectNonBlank(@)]
    /\ UNCHANGED <<file, call, nextId, clock, calls, input>>

NextWindow == splitIntoChunksWindow \/ splitIntoChunksWindowEnd \/ splitIntoChunksReturn

\* the call runs on its own thread of control: a step that can be taken is taken
SpecWindow == InitWindow /\ [][NextWindow]_vars /\ WF_vars(NextWindow)

\* C30: split terminates on every input text for every configuration with
\* chunkSize >= 1 and chunkOverlap >= 0, whitespace-only input included.
C30_Terminates == <>(output.pc = "done")

----------------------------------------------------------------------------
(* Specification: cosineSimilarity on every pair of short integer vectors  *)
(* whose norm is an integer, for which the arithmetic of the code is exact *)

InitCosine ==
    /\ file = BrokenFile("missing")
    /\ call = [p \in Procs |-> IdleCall]
    /\ nextId = 1
    /\ clock = 1
    /\ calls = 0
    /\ \E n, m \in 1..MaxDim :
           \E a \in [1..n -> -2..2], b \in [1..m -> -2..2] :
               /\ Sqrt(DotFrom(a, a, 1)) * Sqrt(DotFrom(a, a, 1)) = DotFrom(a, a, 1)
               /\ Sqrt(DotFrom(b, b, 1)) * Sqrt(DotFrom(b, b, 1)) = DotFrom(b, b, 1)
               /\ input = [a |-> a, b |-> b]
    /\ output = <<>>

\* [throws |-> the call raised, value |-> what it returned otherwise]
ApplyCosine ==
    /\ output = <<>>
    /\ output' = <<[throws |-> cosineThrows(input.a, input.b),
                    value |-> IF cosineThrows(input.a, input.b) THEN 0
                              ELSE cosineSimilarity(input.a, input.b)]>>
    /\ UNCHANGED <<file, call, nextId, clock, calls, input>>

SpecCosine == InitCosine /\ [][ApplyCosine]_vars

====
